---- MODULE Spec2Model ----
(***************************************************************************)
(* Model of dbus-aggregate-batteries (src/aggregatebatteries.py,           *)
(* src/functions.py): the discovery state machine, the aggregation cycle,  *)
(* the charge controller and the Coulomb counter of DbusAggBatService.     *)
(*                                                                         *)
(* Reading of the source.  aggregatebatteries.py carries a half-applied    *)
(* snake_case rename (its own comments say "renamed from _searchTrials to  *)
(* _search_trials"): __init__ and the discovery handlers use the new       *)
(* spelling, the body of _update still uses the old one (_readTrials,      *)
(* _ownCharge, Voltage, ...), and lines 610-613 and 1206-1208 are the      *)
(* seam where the new text was written over the old file, whose intact     *)
(* tail follows the end of the program (lines 1286-1941, identical to      *)
(* lines 630-1142 where both exist).  The two spellings of one name are    *)
(* modelled as one variable and the overwritten lines are read from the    *)
(* intact copy.  Everything else is modelled as written, including the     *)
(* statements the rename changed (the return in _find_multis, the          *)
(* assignment that replaced the MPPT counter's increment).                 *)
(*                                                                         *)
(* Numbers.  Voltages are integers in units of 0.1 V, currents in A,       *)
(* capacities in Ah, the Coulomb counter in Ah/ChargeScale.  A quotient    *)
(* the code computes in floating point is kept as an exact fraction        *)
(* <<numerator, denominator>>.  None is the empty sequence for a numeric   *)
(* value (Some(v) = <<v>>) and the string "None" for a name.               *)
(***************************************************************************)
EXTENDS Integers, Sequences, FiniteSets, TLC

VARIABLES
    settings,            \* settings.py, loaded once at import
    proc,                \* "start" | "running" | "exited"
    exit_reason,         \* the message logged before sys.exit()
    timers,              \* callbacks registered with GLib.timeout_add
    uncaught,            \* a callback ended by an uncaught exception
    monReady,            \* self._dbusMon exists (_startMonitor has run)
    _settings,           \* self._settings
    _batteries_dict,     \* self._batteries_dict, in insertion order
    _multi,              \* self._multi
    _mppts_list,         \* self._mppts_list
    _smart_shunt,        \* self._smart_shunt
    _search_trials,      \* self._search_trials
    _read_trials,        \* self._read_trials
    _fully_discharged,   \* self._fully_discharged
    _dc_feed_active,     \* self._dc_feed_active
    _balancing,          \* self._balancing
    _last_balancing,     \* self._last_balancing
    _dynamic_cvl,        \* self._dynamic_cvl
    _own_charge,         \* self._own_charge
    _own_charge_old,     \* self._own_charge_old
    elapsed,             \* tt.time() - self._time_old
    charge_file,         \* /data/dbus-aggregate-batteries/charge
    last_balancing_file, \* /data/dbus-aggregate-batteries/last_balancing
    feed_in,             \* /Settings/CGwacs/OvervoltageFeedIn of the settings service
    today,               \* int(dt.now().strftime("%j"))
    bus,                 \* the published properties of the virtual device
    hist                 \* what the last handler call did (observation only)

vars == <<settings, proc, exit_reason, timers, uncaught, monReady, _settings,
          _batteries_dict, _multi, _mppts_list, _smart_shunt, _search_trials,
          _read_trials, _fully_discharged, _dc_feed_active, _balancing,
          _last_balancing, _dynamic_cvl, _own_charge, _own_charge_old, elapsed,
          charge_file, last_balancing_file, feed_in, today, bus, hist>>

discoveryVars == <<_settings, _batteries_dict, _multi, _mppts_list, _smart_shunt,
                   _search_trials>>

engineVars == <<_fully_discharged, _dc_feed_active, _balancing, _last_balancing,
                _dynamic_cvl, _own_charge, _own_charge_old, charge_file,
                last_balancing_file, feed_in>>

-----------------------------------------------------------------------------
(* Values *)

None == <<>>

Some(v) == <<v>>

NoName == "None"

Unset == "<unset>"

\* the marker of an expression that raises instead of giving a value
Raised == <<0, 0, 0>>

Max2(a, b) == IF a >= b THEN a ELSE b

Min2(a, b) == IF a <= b THEN a ELSE b

RECURSIVE SeqSum(_)
SeqSum(s) == IF s = <<>> THEN 0 ELSE Head(s) + SeqSum(Tail(s))

\* the sub-sequences of s (order kept), as the service directory of one poll
RECURSIVE SubSeqs(_)
SubSeqs(s) ==
    IF s = <<>> THEN {<<>>}
    ELSE LET rest == SubSeqs(Tail(s))
         IN  rest \cup {<<Head(s)>> \o r : r \in rest}

-----------------------------------------------------------------------------
(* Bounds of the model *)

MaxBatteries == 3

MaxMppts == 2

(* settings.py (not part of src/): the values the handlers compare against *)

SEARCH_TRIALS == 2

READ_TRIALS == 2

NR_OF_CELLS_PER_BATTERY == 2

\* volts are in units of 10 mV
MAX_CELL_VOLTAGE == 353

MIN_CELL_VOLTAGE == 280

MIN_CELL_HYSTERESIS == 30

CELL_DIFF_MAX == 3

BALANCING_VOLTAGE == 345

BALANCING_REPETITION == 2

\* per cell and month; September's normal target equals the balancing target,
\* November's is below it, December's is above it
CHARGE_VOLTAGE_LIST == <<338, 338, 338, 338, 338, 338, 338, 338, 345, 338, 340, 350>>

MAX_CHARGE_CURRENT == 100

MAX_DISCHARGE_CURRENT == 200

\* breakpoints (10 mV) and the fraction of the maximum current, in percent
CELL_CHARGE_LIMITING_VOLTAGE == <<280, 340, 353>>

CELL_CHARGE_LIMITED_CURRENT == <<100, 100, 0>>

CELL_DISCHARGE_LIMITING_VOLTAGE == <<280, 290, 310>>

CELL_DISCHARGE_LIMITED_CURRENT == <<0, 10, 100>>

PercentScale == 100

\* settings.BATTERY_EFFICIENCY = EfficiencyNum / EfficiencyDen
EfficiencyNum == 9

EfficiencyDen == 10

\* settings.CHARGE_SAVE_PRECISION = SavePrecisionNum / SavePrecisionDen
SavePrecisionNum == 1

SavePrecisionDen == 4

\* the 3600 of "deltaTime / 3600"
SecondsPerHour == 3600

\* self._own_charge is kept in units of 1 / ChargeScale Ah
ChargeScale == SecondsPerHour * EfficiencyDen


-----------------------------------------------------------------------------
(* The service directory (dbus list_names) and what each service answers *)

Svc(id, kind, product, name, cells) ==
    [id |-> id, kind |-> kind, product |-> product, name |-> name, cells |-> cells]

\* get_value(service, BATTERY_INSTANCE_NAME_PATH) raises
Raises == "<raises>"

\* the services that can be on the bus, in the order list_names() gives them:
\* four batteries of which two carry the same custom name and one the name
\* the code would give the second, a battery with one cell too many, a shunt,
\* an inverter/charger and two solar chargers
Universe ==
    << Svc("com.victronenergy.settings", "settings", NoName, NoName, 0),
       Svc("battery.ttyUSB0", "battery", "SerialBattery", "B", NR_OF_CELLS_PER_BATTERY),
       Svc("battery.ttyUSB1", "battery", "SerialBattery", "B3", NR_OF_CELLS_PER_BATTERY),
       Svc("battery.ttyUSB2", "battery", "SerialBattery", "B", NR_OF_CELLS_PER_BATTERY),
       Svc("battery.ttyUSB3", "battery", "SerialBattery", "A", NR_OF_CELLS_PER_BATTERY),
       Svc("battery.ttyUSB5", "battery", "SerialBattery", "X", NR_OF_CELLS_PER_BATTERY + 1),
       Svc("battery.ttyS6", "battery", "SmartShunt", NoName, 0),
       Svc("vebus.ttyS4", "vebus", "MultiPlus", NoName, 0),
       Svc("solarcharger.ttyS1", "solarcharger", "SmartSolar", NoName, 0),
       Svc("solarcharger.ttyS2", "solarcharger", "SmartSolar", NoName, 0) >>

\* "com.victronenergy.settings" in service
IsSettingsService(s) == s.kind = "settings"

\* settings.BATTERY_SERVICE_NAME in service
IsBatteryService(s) == s.kind = "battery"

\* settings.MULTI_KEY_WORD in service
IsMultiService(s) == s.kind = "vebus"

\* settings.MPPT_KEY_WORD in service
IsMpptService(s) == s.kind = "solarcharger"

\* (product_name != None) and (settings.BATTERY_PRODUCT_NAME in product_name)
IsBatteryProduct(p) == p # NoName /\ p = "SerialBattery"

\* (product_name != None) and (settings.SMARTSHUNT_NAME_KEY_WORD in product_name)
IsShuntProduct(p) == p # NoName /\ p = "SmartShunt"

\* the listings list_names() can give, cut to the services of one kind: a
\* handler skips the services of the other kinds, whatever they are
Listings(universe, kind) == SubSeqs(SelectSeq(universe, LAMBDA s : s.kind = kind))

\* the part of the universe that is installed at a site
Installed(ids) == SelectSeq(Universe, LAMBDA s : s.id \in ids)

\* the services of a listing that FindBatteries is looking for
MatchingBatteries(dir) ==
    {k \in 1..Len(dir) : IsBatteryService(dir[k]) /\ IsBatteryProduct(dir[k].product)}

-----------------------------------------------------------------------------
(* self._batteries_dict: a Python dict, kept as its items in insertion order *)

DictKeys(d) == {d[k].name : k \in 1..Len(d)}

DictHas(d, name) == name \in DictKeys(d)

\* d[name] = service: a new key is appended, an existing key keeps its place
DictPut(d, name, service) ==
    IF DictHas(d, name)
    THEN [k \in 1..Len(d) |->
            IF d[k].name = name THEN [name |-> name, service |-> service] ELSE d[k]]
    ELSE Append(d, [name |-> name, service |-> service])

-----------------------------------------------------------------------------
(* GLib timers and process exit *)

\* sys.exit() inside a callback: the process ends
Exit(reason) ==
    /\ proc' = "exited"
    /\ exit_reason' = reason
    /\ timers' = {}

\* the callback returns True: it stays registered
KeepCalling(f) == timers' = timers

\* variant: the callback returns True after GLib.timeout_add(..., g)
HandOverKept(f, g) == timers' = timers \cup {g}

\* the callback returns False after GLib.timeout_add(..., g)
HandOver(f, g) == timers' = (timers \ {f}) \cup {g}

\* an exception leaves the callback: GLib drops the source
Crash(f) == timers' = timers \ {f}

Enabled(f) == proc = "running" /\ f \in timers

\* hist: the last call (op, result and what it read and wrote) and, kept over
\* the calls, allShort (every FindBatteries poll so far saw fewer matching
\* services than required), polls (the FindBatteries polls so far), failStreak
\* (the cycles in a row, up to the last one, in which a battery read failed),
\* reads (what the batteries answered in the
\* last cycle that published), balPath (the last values self._balancing was
\* given), feedPhase ("disabled" once the feed-in setting was read as enabled
\* and written to 0, "restored" once it was written back to 1), ve (what the
\* Victron devices answered in the last cycle that published), restarted and
\* drifted (the process was started again, and the accumulator it held then
\* was not the one in the charge file), updateTimers (the calls of
\* GLib.timeout_add(1000, self._update) so far); shuntSeen is the shunt the
\* last FindBatteries poll could reach, custom the custom names of the batteries
\* it accepted, in the order of the listing; sumMissing: a /Voltages/Sum was
\* None in the last call of _update; riseFeed: the feed-in setting as it was
\* when the last cycle in which the dynamic-reduction latch rose began; call
\* and value: the arguments and the return value of the last call of
\* Functions._interpolate that was made on its own
NoHist ==
    [op |-> "none", result |-> "none", matching |-> 0, count |-> 0,
     mismatch |-> FALSE, allShort |-> TRUE, polls |-> 0, multiSeen |-> FALSE,
     mpptSeen |-> 0, reads |-> <<>>, deltaTime |-> 0, trace |-> <<>>,
     feedRead |-> FALSE, feedWrites |-> <<>>, lbWritten |-> FALSE,
     chargeWritten |-> FALSE, published |-> FALSE, failStreak |-> 0,
     balPath |-> <<0>>, feedPhase |-> "idle", ve |-> <<>>,
     restarted |-> FALSE, drifted |-> FALSE, updateTimers |-> 0,
     shuntSeen |-> NoName, custom |-> <<>>, sumMissing |-> FALSE,
     riseFeed |-> None, call |-> <<>>, value |-> None]

Hist(op, result) ==
    [NoHist EXCEPT !.op = op, !.result = result, !.matching = hist.matching,
                   !.count = hist.count, !.allShort = hist.allShort,
                   !.polls = hist.polls, !.multiSeen = hist.multiSeen,
                   !.mpptSeen = hist.mpptSeen, !.failStreak = hist.failStreak,
                   !.balPath = hist.balPath, !.reads = hist.reads,
                   !.feedPhase = hist.feedPhase, !.ve = hist.ve,
                   !.restarted = hist.restarted, !.drifted = hist.drifted,
                   !.updateTimers = hist.updateTimers,
                   !.riseFeed = hist.riseFeed, !.call = hist.call]

\* hist after GLib.timeout_add(1000, self._update)
UpdateAdded(h) == [h EXCEPT !.updateTimers = h.updateTimers + 1]

\* the last PathWindow values of a path
PathWindow == 4

LastOf(path) ==
    IF Len(path) <= PathWindow THEN path
    ELSE SubSeq(path, Len(path) - PathWindow + 1, Len(path))

\* a path continued by the values a variable is given one after the other
RECURSIVE Follow(_, _)
Follow(path, values) ==
    IF values = <<>> THEN path
    ELSE Follow(IF Head(values) = path[Len(path)] THEN path
                ELSE Append(path, Head(values)),
                Tail(values))

-----------------------------------------------------------------------------
(* _find_settings *)

\* the loop over list_names(): the last settings service seen is kept
FindSettingsScan(dir, cur) ==
    LET hits == {k \in 1..Len(dir) : IsSettingsService(dir[k])}
    IN  IF hits = {} THEN cur
        ELSE dir[CHOOSE k \in hits : \A j \in hits : j <= k].id

\* variant: a missing attribute is taken for a found service
FindSettingsOutcomeUnchecked(found, trials) ==
    IF found # NoName THEN "done"
    ELSE IF trials < SEARCH_TRIALS THEN "retry"
    ELSE "exit"

\* the if / elif / else that ends _find_settings; self._settings is read
\* although __init__ never assigns it
FindSettingsOutcome(found, trials) ==
    IF found = Unset THEN "crash"
    ELSE IF found # NoName THEN "done"
    ELSE IF trials < SEARCH_TRIALS THEN "retry"
    ELSE "exit"

_find_settings(dir) ==
    /\ Enabled("_find_settings")
    /\ LET found == FindSettingsScan(dir, _settings)
           out == FindSettingsOutcome(found, _search_trials)
       IN  /\ _settings' = found
           /\ hist' = Hist("_find_settings", out)
           /\ CASE out = "crash" ->
                     /\ Crash("_find_settings")
                     /\ uncaught' = TRUE
                     /\ UNCHANGED <<_search_trials, proc, exit_reason>>
                [] out = "done" ->
                     /\ _search_trials' = 0
                     /\ HandOver("_find_settings", "_find_batteries")
                     /\ UNCHANGED <<uncaught, proc, exit_reason>>
                [] out = "retry" ->
                     /\ _search_trials' = _search_trials + 1
                     /\ KeepCalling("_find_settings")
                     /\ UNCHANGED <<uncaught, proc, exit_reason>>
                [] OTHER ->
                     /\ Exit("com.victronenergy.settings not found")
                     /\ UNCHANGED <<uncaught, _search_trials>>
    /\ UNCHANGED <<settings, monReady, _batteries_dict, _multi, _mppts_list,
                   _smart_shunt, _read_trials, elapsed, today, bus>>
    /\ UNCHANGED engineVars

-----------------------------------------------------------------------------
(* _find_batteries *)

\* the display name of an accepted battery: the custom name, "Battery<N>" when
\* reading it raises, and the name with N appended when it is already a key
BatteryName(s, dict, count) ==
    LET battery_name == IF s.name = Raises
                        THEN "Battery" \o ToString(count + 1)
                        ELSE s.name
    IN  IF DictHas(dict, battery_name)
        THEN battery_name \o ToString(count + 1)
        ELSE battery_name

\* variant: only too few cells are refused
CellCountBelow(s) == s.cells < NR_OF_CELLS_PER_BATTERY

\* the check "Nr. of cells is equal" of an accepted battery
CellCountMismatch(s) == s.cells # NR_OF_CELLS_PER_BATTERY

\* variant: get_value answers before the monitor exists
FindBatteriesVisitReady(s, acc) ==
    IF ~IsBatteryService(s) THEN acc
    ELSE IF IsBatteryProduct(s.product)
    THEN LET name == BatteryName(s, acc.dict, acc.count)
             put  == [acc EXCEPT !.dict = DictPut(acc.dict, name, s.id),
                                 !.count = acc.count + 1]
         IN  IF CellCountMismatch(s) THEN [put EXCEPT !.status = "exit"] ELSE put
    ELSE IF IsShuntProduct(s.product) THEN [acc EXCEPT !.shunt = s.id]
    ELSE acc

\* one pass of the body of "for service in list_names()"
FindBatteriesVisit(s, acc) ==
    IF ~IsBatteryService(s) THEN acc
    ELSE IF ~monReady THEN [acc EXCEPT !.status = "raised"]
    ELSE IF IsBatteryProduct(s.product)
    THEN LET name == BatteryName(s, acc.dict, acc.count)
             put  == [acc EXCEPT !.dict = DictPut(acc.dict, name, s.id),
                                 !.count = acc.count + 1]
         IN  IF CellCountMismatch(s) THEN [put EXCEPT !.status = "exit"] ELSE put
    ELSE IF IsShuntProduct(s.product) THEN [acc EXCEPT !.shunt = s.id]
    ELSE acc

\* the loop inside try/except Exception: an exception ends it, sys.exit() too
RECURSIVE FindBatteriesLoop(_, _, _)
FindBatteriesLoop(dir, k, acc) ==
    IF k > Len(dir) \/ acc.status # "run" THEN acc
    ELSE FindBatteriesLoop(dir, k + 1, FindBatteriesVisit(dir[k], acc))

FindBatteriesScan(dir) ==
    FindBatteriesLoop(dir, 1,
        [dict |-> <<>>, count |-> 0, shunt |-> _smart_shunt, status |-> "run"])

\* the shunt of a listing, when the monitor answers
ShuntOf(dir) ==
    LET hits == {k \in 1..Len(dir) :
                    IsBatteryService(dir[k]) /\ IsShuntProduct(dir[k].product)}
    IN  IF ~monReady \/ hits = {} THEN NoName
        ELSE dir[CHOOSE k \in hits : \A j \in hits : j <= k].id

\* what get_value(service, BATTERY_INSTANCE_NAME_PATH) gave for the accepted
\* batteries of a listing, when the monitor answers
CustomNames(dir) ==
    IF ~monReady THEN <<>>
    ELSE LET accepted == SelectSeq(dir, LAMBDA s : IsBatteryService(s)
                                                    /\ IsBatteryProduct(s.product))
         IN  [k \in 1..Len(accepted) |-> accepted[k].name]

\* variant: one poll more than the budget
FindBatteriesOutcomeOneMore(batteries_count, trials) ==
    IF batteries_count = settings.NR_OF_BATTERIES THEN "done"
    ELSE IF trials <= SEARCH_TRIALS THEN "retry"
    ELSE "exit"

\* the if / elif / else that ends _find_batteries
FindBatteriesOutcome(batteries_count, trials) ==
    IF batteries_count = settings.NR_OF_BATTERIES THEN "done"
    ELSE IF trials < SEARCH_TRIALS THEN "retry"
    ELSE "exit"

_find_batteries(dir) ==
    /\ Enabled("_find_batteries")
    /\ LET scan == FindBatteriesScan(dir)
           out  == IF scan.status = "exit" THEN "cells"
                   ELSE FindBatteriesOutcome(scan.count, _search_trials)
           short == Cardinality(MatchingBatteries(dir)) < settings.NR_OF_BATTERIES
       IN  /\ _batteries_dict' = scan.dict
           /\ _smart_shunt' = scan.shunt
           /\ hist' = [(IF out = "done" /\ ~settings.CURRENT_FROM_VICTRON
                         THEN UpdateAdded(Hist("_find_batteries", out))
                         ELSE Hist("_find_batteries", out)) EXCEPT
                          !.matching = Cardinality(MatchingBatteries(dir)),
                          !.count = scan.count,
                          !.mismatch =
                              /\ monReady
                              /\ \E k \in MatchingBatteries(dir) :
                                     dir[k].cells # NR_OF_CELLS_PER_BATTERY,
                          !.allShort = hist.allShort /\ short,
                          !.shuntSeen = ShuntOf(dir),
                          !.custom = CustomNames(dir),
                          !.polls = hist.polls + 1]
           /\ CASE out = "cells" ->
                     /\ Exit("Number of cells of batteries is not correct")
                     /\ UNCHANGED <<_search_trials, elapsed>>
                [] out = "done" /\ settings.CURRENT_FROM_VICTRON ->
                     /\ _search_trials' = 0
                     /\ HandOver("_find_batteries", "_find_multis")
                     /\ UNCHANGED <<proc, exit_reason, elapsed>>
                [] out = "done" /\ ~settings.CURRENT_FROM_VICTRON ->
                     /\ elapsed' = 0
                     /\ HandOver("_find_batteries", "_update")
                     /\ UNCHANGED <<proc, exit_reason, _search_trials>>
                [] out = "retry" ->
                     /\ _search_trials' = _search_trials + 1
                     /\ KeepCalling("_find_batteries")
                     /\ UNCHANGED <<proc, exit_reason, elapsed>>
                [] OTHER ->
                     /\ Exit("Required number of batteries not found")
                     /\ UNCHANGED <<_search_trials, elapsed>>
    /\ UNCHANGED <<settings, uncaught, monReady, _settings, _multi, _mppts_list,
                   _read_trials, today, bus>>
    /\ UNCHANGED engineVars

-----------------------------------------------------------------------------
(* _find_multis *)

\* the loop over list_names(): the last matching service is kept (the
\* get_value inside logging.info may raise after the assignment)
FindMultisScan(dir, cur) ==
    LET hits == {k \in 1..Len(dir) : IsMultiService(dir[k])}
    IN  IF hits = {} THEN cur
        ELSE IF ~monReady THEN dir[CHOOSE k \in hits : \A j \in hits : k <= j].id
        ELSE dir[CHOOSE k \in hits : \A j \in hits : j <= k].id

\* what follows the loop: both branches of the if fall into "return False";
\* the trial counter and the sys.exit() below it are never reached
FindMultisOutcome(multi, trials) ==
    IF multi # NoName THEN "done" ELSE "start_update"

_find_multis(dir) ==
    /\ Enabled("_find_multis")
    /\ LET multi == FindMultisScan(dir, _multi)
           out   == FindMultisOutcome(multi, _search_trials)
       IN  /\ _multi' = multi
           /\ hist' = [(IF out = "start_update"
                         THEN UpdateAdded(Hist("_find_multis", out))
                         ELSE Hist("_find_multis", out)) EXCEPT
                          !.multiSeen = \E k \in 1..Len(dir) : IsMultiService(dir[k])]
           /\ CASE out = "done" ->
                     /\ _search_trials' = 0
                     /\ HandOver("_find_multis", "_find_mppts")
                     /\ UNCHANGED <<proc, exit_reason, elapsed>>
                [] out = "start_update" ->
                     /\ elapsed' = 0
                     /\ HandOver("_find_multis", "_update")
                     /\ UNCHANGED <<proc, exit_reason, _search_trials>>
                [] out = "retry" ->
                     /\ _search_trials' = _search_trials + 1
                     /\ KeepCalling("_find_multis")
                     /\ UNCHANGED <<proc, exit_reason, elapsed>>
                [] OTHER ->
                     /\ Exit("Multi/Quattro not found")
                     /\ UNCHANGED <<_search_trials, elapsed>>
    /\ UNCHANGED <<settings, uncaught, monReady, _settings, _batteries_dict,
                   _mppts_list, _smart_shunt, _read_trials, today, bus>>
    /\ UNCHANGED engineVars

-----------------------------------------------------------------------------
(* _find_mppts *)

\* the loop over list_names(): every matching service is appended (the
\* get_value inside logging.info ends the loop when it raises)
FindMpptsScan(dir) ==
    LET hits == {k \in 1..Len(dir) : IsMpptService(dir[k])}
        ids  == [k \in 1..Len(dir) |-> dir[k].id]
        all  == SelectSeq(ids, LAMBDA x : \E k \in hits : dir[k].id = x)
    IN  IF ~monReady /\ all # <<>> THEN <<Head(all)>> ELSE all

\* mppts_count after the loop: "mpppts_count = mppts_count" stands where the
\* counter was to be incremented, so the count stays at its initial 0
MpptsCount(mppts) == 0

\* the if / if / exit that ends _find_mppts
FindMpptsOutcome(mppts_count, trials) ==
    IF mppts_count = settings.NR_OF_MPPTS THEN "done"
    ELSE IF trials < SEARCH_TRIALS THEN "retry"
    ELSE "exit"

_find_mppts(dir) ==
    /\ Enabled("_find_mppts")
    /\ LET mppts == FindMpptsScan(dir)
           out   == FindMpptsOutcome(MpptsCount(mppts), _search_trials)
       IN  /\ _mppts_list' = mppts
           /\ hist' = [(IF out = "done"
                         THEN UpdateAdded(Hist("_find_mppts", out))
                         ELSE Hist("_find_mppts", out)) EXCEPT
                          !.mpptSeen = Len(mppts)]
           /\ CASE out = "done" ->
                     /\ elapsed' = 0
                     /\ HandOver("_find_mppts", "_update")
                     /\ UNCHANGED <<proc, exit_reason, _search_trials>>
                [] out = "retry" ->
                     /\ _search_trials' = _search_trials + 1
                     /\ KeepCalling("_find_mppts")
                     /\ UNCHANGED <<proc, exit_reason, elapsed>>
                [] OTHER ->
                     /\ Exit("Required number of MPPTs not found")
                     /\ UNCHANGED <<_search_trials, elapsed>>
    /\ UNCHANGED <<settings, uncaught, monReady, _settings, _batteries_dict,
                   _multi, _smart_shunt, _read_trials, today, bus>>
    /\ UNCHANGED engineVars

-----------------------------------------------------------------------------
(* Fractions <<n, d>> with d > 0, for the quotients the code computes *)

Frac(n, d) == <<n, d>>

FracLe(a, b) == a[1] * b[2] <= b[1] * a[2]

FracEq(a, b) == a[1] * b[2] = b[1] * a[2]

\* x >= c for a fraction x and an integer c
FracGeInt(x, c) == x[1] >= c * x[2]

FracLeInt(x, c) == x[1] <= c * x[2]

-----------------------------------------------------------------------------
(* functions.py *)

SeqMax(x) == CHOOSE m \in {x[k][1] : k \in 1..Len(x)} :
                 \A k \in 1..Len(x) : x[k][1] <= m

SeqMin(x) == CHOOSE m \in {x[k][1] : k \in 1..Len(x)} :
                 \A k \in 1..Len(x) : m <= x[k][1]

\* variant: the None items are left out before max is taken
_maxPresent(x) ==
    LET present == SelectSeq(x, LAMBDA v : v # None)
    IN  IF present = <<>> THEN None ELSE Some(SeqMax(present))

\* Functions._max: max(x), and None when max raises TypeError (a None among
\* several items) or ValueError (no item); max of the single item None is None
_max(x) ==
    IF x = <<>> \/ (\E k \in 1..Len(x) : x[k] = None) THEN None
    ELSE Some(SeqMax(x))

\* Functions._min, the same with min
_min(x) ==
    IF x = <<>> \/ (\E k \in 1..Len(x) : x[k] = None) THEN None
    ELSE Some(SeqMin(x))

\* the segment "for i in range(_len - 1): if x <= X[i + 1]" stops at
InterpolateIndex(X, x) ==
    CHOOSE i \in 1..(Len(X) - 1) :
        /\ x <= X[i + 1]
        /\ \A j \in 1..(i - 1) : ~(x <= X[j + 1])

\* Functions._interpolate for tables of equal length, as an exact fraction
_interpolate(X, Y, x) ==
    IF x <= X[1] THEN Frac(Y[1], 1)
    ELSE IF x >= X[Len(X)] THEN Frac(Y[Len(X)], 1)
    ELSE LET i == InterpolateIndex(X, x)
         IN  Frac(Y[i] * (X[i + 1] - X[i]) + (Y[i + 1] - Y[i]) * (x - X[i]),
                  X[i + 1] - X[i])

\* Python evaluates "/" on two ints, "*" and "+" on a float and an int in
\* IEEE binary64: the exact result is rounded to the nearest value with 53
\* significant bits, a tie to the even significand. The operators below keep
\* that rule and scale the significand to FloatBits bits, which keeps the
\* products within TLC's integers; the exponents are wide enough for no
\* operation to overflow or underflow. The integers they are applied to are
\* below 2^FloatBits, as the integers of the tables are below 2^53.
FloatBits == 4

FloatExps == (0 - 3 * FloatBits)..(2 * FloatBits)

\* the fraction a / (d * 2^e)
Scaled(a, d, e) ==
    IF e >= 0 THEN Frac(a, d * 2^e) ELSE Frac(a * 2^(0 - e), d)

\* the exponent e with 2^(FloatBits - 1) <= a / (d * 2^e) < 2^FloatBits
FloatExp(a, d) ==
    CHOOSE e \in FloatExps :
        LET s == Scaled(a, d, e)
        IN  2^(FloatBits - 1) * s[2] <= s[1] /\ s[1] < 2^FloatBits * s[2]

\* n / d rounded to the nearest integer, a tie to the even one (n >= 0, d > 0)
RoundHalfEven(n, d) ==
    LET q == n \div d
        r == n % d
    IN  IF 2 * r > d \/ (2 * r = d /\ q % 2 = 1) THEN q + 1 ELSE q

\* m * 2^e as a fraction in lowest terms
Ldexp(m, e) ==
    IF e >= 0 THEN Frac(m * 2^e, 1)
    ELSE LET k == CHOOSE k \in 0..(0 - e) :
                      /\ m % 2^k = 0
                      /\ k < 0 - e => m % 2^(k + 1) # 0
         IN  Frac(m \div 2^k, 2^((0 - e) - k))

\* the float nearest to the fraction q
RoundFloat(q) ==
    IF q[1] = 0 THEN Frac(0, 1)
    ELSE LET a == IF q[1] < 0 THEN 0 - q[1] ELSE q[1]
             e == FloatExp(a, q[2])
             s == Scaled(a, q[2], e)
             m == RoundHalfEven(s[1], s[2])
         IN  Ldexp(IF q[1] < 0 THEN 0 - m ELSE m, e)

\* "Y[i] + (Y[i + 1] - Y[i]) / (X[i + 1] - X[i]) * (x - X[i])" on ints: the
\* differences are exact, the quotient, the product and the sum are rounded
InterpolateSegment(X, Y, x, i) ==
    LET slope == RoundFloat(Frac(Y[i + 1] - Y[i], X[i + 1] - X[i]))
        rise  == RoundFloat(Frac(slope[1] * (x - X[i]), slope[2]))
    IN  RoundFloat(Frac(Y[i] * rise[2] + rise[1], rise[2]))

\* Functions._interpolate for tables of equal length, as Python computes it
\* on integer arguments
_interpolateFloat(X, Y, x) ==
    IF x <= X[1] THEN Frac(Y[1], 1)
    ELSE IF x >= X[Len(X)] THEN Frac(Y[Len(X)], 1)
    ELSE InterpolateSegment(X, Y, x, InterpolateIndex(X, x))

-----------------------------------------------------------------------------
(* _update: reading the batteries (the try block) *)

AlarmKinds ==
    {"LowVoltage", "HighVoltage", "LowCellVoltage", "LowSoc", "HighChargeCurrent",
     "HighDischargeCurrent", "CellImbalance", "InternalFailure",
     "HighChargeTemperature", "LowChargeTemperature", "HighTemperature",
     "LowTemperature", "BmsCable"}

Range(n) == 1..n

\* a get_value of this battery raises, or "+=" meets None
ReadRaises(r) == r.fail

\* "raise TypeError" when /Voltages/Sum is None
VoltagesSumMissing(r) == r.VoltagesSum = None

\* variant: only the explicit "raise TypeError" ends the try block
ReadFailedSumOnly(reads) ==
    \E k \in Range(Len(reads)) : VoltagesSumMissing(reads[k])

\* the try block ends in "except Exception"
ReadFailed(reads) ==
    \E k \in Range(Len(reads)) : ReadRaises(reads[k]) \/ VoltagesSumMissing(reads[k])

\* TimeToGo over the batteries in read order: once None it stays None
RECURSIVE TimeToGoLoop(_, _, _)
TimeToGoLoop(reads, k, TimeToGo) ==
    IF k > Len(reads) THEN TimeToGo
    ELSE LET ttg == reads[k].TimeToGo
         IN  TimeToGoLoop(reads, k + 1,
                IF ttg # None /\ TimeToGo # None
                THEN Some(TimeToGo[1] + ttg[1] * reads[k].InstalledCapacity)
                ELSE None)

\* variant: the batteries without time to go are left out of the sum
TimeToGoOfPresent(reads) ==
    Some(SeqSum([k \in 1..Len(reads) |->
                    IF reads[k].TimeToGo = None THEN 0
                    ELSE reads[k].TimeToGo[1] * reads[k].InstalledCapacity]))

\* TimeToGo after the loop over the batteries, from "TimeToGo = 0"
TimeToGoSum(reads) == TimeToGoLoop(reads, 1, Some(0))

\* cellOvervoltage of one battery: the sum of the cells' excess above the ceiling
CellOvervoltage(r) ==
    SeqSum([j \in Range(NR_OF_CELLS_PER_BATTERY) |->
               IF r.Cells[j] > MAX_CELL_VOLTAGE
               THEN r.Cells[j] - MAX_CELL_VOLTAGE ELSE 0])

\* chargeVoltageReduced_list.append(VoltagesSum_dict[i] - cellOvervoltage)
ChargeVoltageReduced(r) == r.VoltagesSum[1] - CellOvervoltage(r)

\* one answer of every battery, in read order
Column(reads, field) == [k \in Range(Len(reads)) |-> reads[k][field]]

\* the terms of "Soc += Soc_i * InstalledCapacity_i"
WeightedSoc(reads) ==
    [k \in Range(Len(reads)) |-> reads[k].Soc * reads[k].InstalledCapacity]

\* the sums and lists the loop over self._batteries_dict collects
ReadBatteries(reads) ==
    [Voltage |-> SeqSum(Column(reads, "Voltage")),
     Current |-> SeqSum(Column(reads, "Current")),
     Power |-> SeqSum(Column(reads, "Power")),
     InstalledCapacity |-> SeqSum(Column(reads, "InstalledCapacity")),
     ConsumedAmphours |->
        IF settings.OWN_SOC THEN 0
        ELSE SeqSum(Column(reads, "ConsumedAmphours")),
     Capacity |->
        IF settings.OWN_SOC THEN 0
        ELSE SeqSum(Column(reads, "Capacity")),
     Soc |->
        IF settings.OWN_SOC THEN 0
        ELSE SeqSum(WeightedSoc(reads)),
     TimeToGo |->
        IF settings.OWN_SOC THEN Some(0) ELSE TimeToGoSum(reads),
     Temperature |-> SeqSum(Column(reads, "Temperature")),
     MaxCellTemp_list |-> [k \in Range(Len(reads)) |-> Some(reads[k].MaxCellTemperature)],
     MinCellTemp_list |-> [k \in Range(Len(reads)) |-> Some(reads[k].MinCellTemperature)],
     MaxCellVoltage_dict |->
        [k \in Range(Len(reads)) |->
            [id |-> _batteries_dict[k].name \o "_" \o reads[k].MaxVoltageCellId,
             v |-> reads[k].MaxCellVoltage]],
     MinCellVoltage_dict |->
        [k \in Range(Len(reads)) |->
            [id |-> _batteries_dict[k].name \o "_" \o reads[k].MinVoltageCellId,
             v |-> reads[k].MinCellVoltage]],
     VoltagesSum_dict |-> [k \in Range(Len(reads)) |-> reads[k].VoltagesSum[1]],
     NrOfModulesOnline |-> SeqSum(Column(reads, "NrOfModulesOnline")),
     NrOfModulesOffline |-> SeqSum(Column(reads, "NrOfModulesOffline")),
     NrOfModulesBlockingCharge |->
        SeqSum(Column(reads, "NrOfModulesBlockingCharge")),
     NrOfModulesBlockingDischarge |->
        SeqSum(Column(reads, "NrOfModulesBlockingDischarge")),
     alarm_list |-> [a \in AlarmKinds |-> [k \in Range(Len(reads)) |-> reads[k].Alarms[a]]],
     chargeVoltageReduced_list |->
        IF settings.OWN_CHARGE_PARAMETERS
        THEN [k \in Range(Len(reads)) |-> Some(ChargeVoltageReduced(reads[k]))]
        ELSE <<>>,
     MaxChargeCurrent_list |->
        IF settings.OWN_CHARGE_PARAMETERS THEN <<>>
        ELSE Column(reads, "MaxChargeCurrent"),
     MaxDischargeCurrent_list |->
        IF settings.OWN_CHARGE_PARAMETERS THEN <<>>
        ELSE Column(reads, "MaxDischargeCurrent"),
     MaxChargeVoltage_list |->
        IF settings.OWN_CHARGE_PARAMETERS THEN <<>>
        ELSE Column(reads, "MaxChargeVoltage"),
     AllowToCharge_list |-> Column(reads, "AllowToCharge"),
     AllowToDischarge_list |-> Column(reads, "AllowToDischarge"),
     AllowToBalance_list |-> Column(reads, "AllowToBalance")]

\* max(d, key=d.get): the first key, in insertion order, of the largest value
MaxKey(d) ==
    d[CHOOSE k \in Range(Len(d)) :
        /\ \A j \in Range(Len(d)) : d[j].v <= d[k].v
        /\ \A j \in 1..(k - 1) : d[j].v < d[k].v]

\* min(d, key=d.get): the first key of the smallest value
MinKey(d) ==
    d[CHOOSE k \in Range(Len(d)) :
        /\ \A j \in Range(Len(d)) : d[k].v <= d[j].v
        /\ \A j \in 1..(k - 1) : d[k].v < d[j].v]

\* what the batteries did in this pass: some get_value raised, or a
\* /Voltages/Sum was None
SomeReadFails(reads) ==
    \E k \in Range(Len(reads)) : reads[k].fail \/ reads[k].VoltagesSum = None

\* hist after a pass over the batteries
Streak(h, reads) ==
    [h EXCEPT !.failStreak = IF SomeReadFails(reads) THEN h.failStreak + 1 ELSE 0,
              !.sumMissing = \E k \in Range(Len(reads)) : reads[k].VoltagesSum = None]

\* variant: the failed read is not counted
ReadTrialsKept(trials) == trials

\* line 833: self._readTrials += 1
ReadTrialsCounted(trials) == trials + 1

\* variant: the process ends when the budget is reached
ReadFailureOutcomeAtBudget(trials) ==
    IF trials >= READ_TRIALS THEN "exit" ELSE "retry"

\* the except branch: self._read_trials has been incremented to trials
ReadFailureOutcome(trials) ==
    IF trials > READ_TRIALS THEN "exit" ELSE "retry"

-----------------------------------------------------------------------------
(* _update: processing the collected values *)

\* variant: the sum is published undivided
AverageUndivided(sum) == Frac(sum, 1)

\* Voltage / settings.NR_OF_BATTERIES, and the same for Temperature and
\* VoltagesSum
Average(sum) == Frac(sum, settings.NR_OF_BATTERIES)

\* self._fn._min(list) * settings.NR_OF_BATTERIES raises TypeError on None
ScaledMin(list) ==
    IF _min(list) = None THEN Raised
    ELSE Some(_min(list)[1] * settings.NR_OF_BATTERIES)

\* the external-mode limits cannot be computed: the TypeError leaves _update
ChargeParametersRaise(rd) ==
    /\ ~settings.OWN_CHARGE_PARAMETERS
    /\ \/ ScaledMin(rd.MaxChargeCurrent_list) = Raised
       \/ ScaledMin(rd.MaxDischargeCurrent_list) = Raised

\* Current_VE of the block "Measure current by Victron stuff": a number, None,
\* or Raised when a read or an addition raises
RECURSIVE AddMppts(_, _, _)
AddMppts(ve, i, cur) ==
    IF i > settings.NR_OF_MPPTS \/ cur = Raised THEN cur
    ELSE AddMppts(ve, i + 1,
            IF i > Len(_mppts_list) \/ cur = None \/ ve.mppts[i] = None
            THEN Raised
            ELSE Some(cur[1] + ve.mppts[i][1]))

\* get_value(service, "/Dc/0/Current"): None for a service that was not found
DcCurrent(service, answer) == IF service = NoName THEN None ELSE answer

\* variant: the inverter/charger alone decides, the other reads are skipped
VictronCurrentOfMulti(ve) ==
    IF ve.raises \/ DcCurrent(_multi, ve.multi) = None THEN Raised
    ELSE DcCurrent(_multi, ve.multi)

\* lines 896-913: Current_VE, or Raised when a statement of the try block raises
VictronCurrent(ve) ==
    IF ve.raises THEN Raised
    ELSE LET withMppts == AddMppts(ve, 1, DcCurrent(_multi, ve.multi))
             shunt == DcCurrent(_smart_shunt, ve.shunt)
         IN  IF withMppts = Raised \/ ~settings.DC_LOADS THEN withMppts
             ELSE IF withMppts = None \/ shunt = None THEN Raised
             ELSE IF settings.INVERT_SMARTSHUNT
             THEN Some(withMppts[1] + shunt[1])
             ELSE Some(withMppts[1] - shunt[1])

\* Current and Power after the Victron block: overwritten only together, and
\* only when Current_VE was computed and is not None
CurrentAndPower(rd, ve) ==
    LET Current_VE == IF settings.CURRENT_FROM_VICTRON
                      THEN VictronCurrent(ve) ELSE Raised
    IN  IF Current_VE = Raised \/ Current_VE = None
        THEN [Current |-> rd.Current, Power |-> Frac(rd.Power, 1)]
        ELSE [Current |-> Current_VE[1],
              Power |-> Frac(rd.Voltage * Current_VE[1], settings.NR_OF_BATTERIES)]

-----------------------------------------------------------------------------
(* _update: own charge parameters *)

\* the last day of each month, for int(dt.now().strftime("%m"))
MonthEnds == <<31, 59, 90, 120, 151, 181, 212, 243, 273, 304, 334, 366>>

MonthOf(day) == CHOOSE m \in 1..12 :
                    /\ day <= MonthEnds[m]
                    /\ \A j \in 1..(m - 1) : day > MonthEnds[j]

CVL_NORMAL(day) == NR_OF_CELLS_PER_BATTERY * CHARGE_VOLTAGE_LIST[MonthOf(day)]

CVL_BALANCING == NR_OF_CELLS_PER_BATTERY * BALANCING_VOLTAGE

\* the wrap of "time_unbalanced += 365  # year change"
DaysPerYear == 365

\* time_unbalanced, in days
TimeUnbalanced(day, last) ==
    IF day - last < 0 THEN day - last + DaysPerYear ELSE day - last

\* variant: balancing starts a day early
BalancingActivateEarly(bal, time_unbalanced) ==
    IF bal = 0 /\ time_unbalanced >= BALANCING_REPETITION - 1 THEN 1 ELSE bal

\* variant: balancing starts a day late
BalancingActivateLate(bal, time_unbalanced) ==
    IF bal = 0 /\ time_unbalanced > BALANCING_REPETITION THEN 1 ELSE bal

\* "if (self._balancing == 0) and (time_unbalanced >= BALANCING_REPETITION)"
BalancingActivate(bal, time_unbalanced) ==
    IF bal = 0 /\ time_unbalanced >= BALANCING_REPETITION THEN 1 ELSE bal

\* "if self._balancing == 1": the goal is reached
BalancingGoal(bal, Voltage, spread) ==
    IF bal = 1 /\ FracGeInt(Voltage, CVL_BALANCING) /\ spread < CELL_DIFF_MAX
    THEN 2 ELSE bal

\* variant: balancing ends from Pending as well
BalancingFinishedPending(bal, Voltage, day) ==
    bal >= 1 /\ FracLeInt(Voltage, CVL_NORMAL(day))

\* "if self._balancing >= 2": the charge above normal is consumed
BalancingFinished(bal, Voltage, day) ==
    bal >= 2 /\ FracLeInt(Voltage, CVL_NORMAL(day))

\* variant: balancing is complete with the cells apart as well
DegenerateFinishedApart(time_unbalanced, Voltage, spread) ==
    /\ time_unbalanced > 0
    /\ FracGeInt(Voltage, CVL_BALANCING)

\* the elif of the degenerate case (normal target at or above the balancing one)
DegenerateFinished(time_unbalanced, Voltage, spread) ==
    /\ time_unbalanced > 0
    /\ FracGeInt(Voltage, CVL_BALANCING)
    /\ spread < CELL_DIFF_MAX

\* ChargeVoltageBattery at the end of the "if CVL_BALANCING > CVL_NORMAL"
\* branch: CVL_BALANCING from "if self._balancing == 1" or "if
\* self._balancing >= 2", put back to CVL_NORMAL by "if self._balancing == 0"
ChargeVoltageBatteryOf(bal, day) ==
    IF bal = 0 THEN CVL_NORMAL(day) ELSE CVL_BALANCING

\* variant: the balancing states are managed at equal targets as well
NormalUpToBalancing(day) == CVL_BALANCING >= CVL_NORMAL(day)

\* "if CVL_BALANCING > CVL_NORMAL": the normal charging voltage is lower than
\* the balancing voltage
NormalBelowBalancing(day) == CVL_BALANCING > CVL_NORMAL(day)

\* lines 944-1008: the balancing state, the last balancing day and whether the
\* last_balancing file is written, and ChargeVoltageBattery
Balancing(bal, last, day, Voltage, spread) ==
    LET tu == TimeUnbalanced(day, last)
    IN  IF NormalBelowBalancing(day)
        THEN LET b1   == BalancingActivate(bal, tu)
                 b2   == BalancingGoal(b1, Voltage, spread)
                 done == BalancingFinished(b2, Voltage, day)
                 b3   == IF done THEN 0 ELSE b2
             IN  [balancing |-> b3,
                  last |-> IF done THEN day ELSE last,
                  written |-> done,
                  trace |-> <<bal, b1, b2, b3>>,
                  ChargeVoltageBattery |-> ChargeVoltageBatteryOf(b3, day)]
        ELSE LET done == DegenerateFinished(tu, Voltage, spread)
             IN  [balancing |-> bal,
                  last |-> IF done THEN day ELSE last,
                  written |-> done,
                  trace |-> <<bal, bal, bal, bal>>,
                  ChargeVoltageBattery |-> CVL_NORMAL(day)]

\* self._dc_feed_active holds False, or what get_value gave (0 or 1)
FeedValue(v) == IF v = 1 THEN "1" ELSE "0"

\* "self._DCfeedActive is False": an identity test, true of False only
IsFalse(x) == x = "False"

\* the truth value of self._dc_feed_active in "... and self._DCfeedActive"
Truthy(x) == x = "1"

\* variant: the battery target alone
ReducedChargeVoltageTarget(reduced_list, ChargeVoltageBattery) == ChargeVoltageBattery

\* lines 1037-1039: min(min(chargeVoltageReduced_list), ChargeVoltageBattery)
ReducedChargeVoltage(reduced_list, ChargeVoltageBattery) ==
    Min2(_min(reduced_list)[1], ChargeVoltageBattery)

\* variant: the cached flag is kept after the setting is written back
FeedAfterRestoreKept(restore, dc_feed) == dc_feed

\* line 1064: self._DCfeedActive = False once the setting is written back
FeedAfterRestore(restore, dc_feed) == IF restore THEN "False" ELSE dc_feed

\* lines 1013-1064: dynamic CVL reduction and the feed-in setting; the
\* set_value(..., 0) of line 1028 is outside "if not self._dynamicCVL"
DynamicCVL(MaxCellVoltage, spread, reduced_list, ChargeVoltageBattery) ==
    IF MaxCellVoltage >= MAX_CELL_VOLTAGE
    THEN LET rising == ~_dynamic_cvl
             reads  == rising /\ IsFalse(_dc_feed_active)
         IN  [dynamic |-> TRUE,
              dc_feed |-> IF reads THEN FeedValue(feed_in) ELSE _dc_feed_active,
              feedRead |-> reads,
              feedWrites |-> <<0>>,
              feed_in |-> 0,
              MaxChargeVoltage |->
                  ReducedChargeVoltage(reduced_list, ChargeVoltageBattery)]
    ELSE LET restore == spread < CELL_DIFF_MAX /\ Truthy(_dc_feed_active)
         IN  [dynamic |-> FALSE,
              dc_feed |-> FeedAfterRestore(restore, _dc_feed_active),
              feedRead |-> FALSE,
              feedWrites |-> IF restore THEN <<1>> ELSE <<>>,
              feed_in |-> IF restore THEN 1 ELSE feed_in,
              MaxChargeVoltage |-> ChargeVoltageBattery]

\* what the feed-in setting went through, seen from its reads and writes
FeedPhase(phase, feedRead, read_value, feedWrites) ==
    IF feedWrites = <<1>> THEN "restored"
    ELSE IF feedRead /\ read_value = 1 /\ feedWrites = <<0>> THEN "disabled"
    ELSE phase

\* variant: the blocking modules are not looked at
ChargeCurrentLimitUnblocked(NrOfModulesBlockingCharge, MaxCellVoltage) ==
    LET f == _interpolate(CELL_CHARGE_LIMITING_VOLTAGE,
                          CELL_CHARGE_LIMITED_CURRENT, MaxCellVoltage)
    IN  Frac(MAX_CHARGE_CURRENT * f[1], f[2] * PercentScale)

\* lines 1069-1077: the charge current limit
ChargeCurrentLimit(NrOfModulesBlockingCharge, MaxCellVoltage) ==
    IF NrOfModulesBlockingCharge > 0 THEN Frac(0, 1)
    ELSE LET f == _interpolate(CELL_CHARGE_LIMITING_VOLTAGE,
                               CELL_CHARGE_LIMITED_CURRENT, MaxCellVoltage)
         IN  Frac(MAX_CHARGE_CURRENT * f[1], f[2] * PercentScale)

\* variant: the latch clears as soon as the cell is above the floor
FullyDischargedNoMargin(latch, MinCellVoltage) == MinCellVoltage <= MIN_CELL_VOLTAGE

\* lines 1080-1086: the hysteresis latch of the discharge limit
FullyDischarged(latch, MinCellVoltage) ==
    IF MinCellVoltage <= MIN_CELL_VOLTAGE THEN TRUE
    ELSE IF MinCellVoltage > MIN_CELL_VOLTAGE + MIN_CELL_HYSTERESIS THEN FALSE
    ELSE latch

\* lines 1088-1098: the discharge current limit
DischargeCurrentLimit(NrOfModulesBlockingDischarge, latch, MinCellVoltage) ==
    IF NrOfModulesBlockingDischarge > 0 \/ latch THEN Frac(0, 1)
    ELSE LET f == _interpolate(CELL_DISCHARGE_LIMITING_VOLTAGE,
                               CELL_DISCHARGE_LIMITED_CURRENT, MinCellVoltage)
         IN  Frac(MAX_DISCHARGE_CURRENT * f[1], f[2] * PercentScale)

\* variant: the snap to the installed capacity is the later assignment
SnapChargeFullLast(charge, Voltage, MinCellVoltage, InstalledCapacity) ==
    LET zero == IF MinCellVoltage <= MIN_CELL_VOLTAGE /\ settings.ZERO_SOC
                THEN 0 ELSE charge
    IN  IF FracGeInt(Voltage, CVL_BALANCING)
        THEN InstalledCapacity * ChargeScale ELSE zero

\* lines 1010-1011 and 1066-1067: the snaps of the Coulomb counter, the zero
\* snap being the later assignment
SnapCharge(charge, Voltage, MinCellVoltage, InstalledCapacity) ==
    LET full == IF FracGeInt(Voltage, CVL_BALANCING)
                THEN InstalledCapacity * ChargeScale ELSE charge
    IN  IF MinCellVoltage <= MIN_CELL_VOLTAGE /\ settings.ZERO_SOC THEN 0 ELSE full

-----------------------------------------------------------------------------
(* _update: the Coulomb counter *)

\* variant: the efficiency is applied in both directions
ChargeDeltaBothWays(Current, deltaTime) == Current * deltaTime * EfficiencyNum

\* lines 1106-1111: the charge moved in deltaTime seconds, in 1/ChargeScale Ah
ChargeDelta(Current, deltaTime) ==
    IF Current > 0 THEN Current * deltaTime * EfficiencyNum
    ELSE Current * deltaTime * EfficiencyDen

\* variant: only the lower clamp
ClampChargeFloor(charge, InstalledCapacity) == Max2(charge, 0)

\* lines 1112-1113: max(.., 0) then min(.., InstalledCapacity)
ClampCharge(charge, InstalledCapacity) ==
    Min2(Max2(charge, 0), InstalledCapacity * ChargeScale)

\* variant: a drift of exactly the precision is not saved
SaveNeededAbove(charge, charge_old, InstalledCapacity) ==
    LET drift == IF charge >= charge_old THEN charge - charge_old
                 ELSE charge_old - charge
    IN  drift * SavePrecisionDen > SavePrecisionNum * InstalledCapacity * ChargeScale

\* line 1116: the drift that makes the charge file be written
SaveNeeded(charge, charge_old, InstalledCapacity) ==
    LET drift == IF charge >= charge_old THEN charge - charge_old
                 ELSE charge_old - charge
    IN  drift * SavePrecisionDen >= SavePrecisionNum * InstalledCapacity * ChargeScale

\* the digits "%.3f" keeps
MilliScale == 1000

\* "%.3f" % charge: the nearest multiple of 0.001 Ah (a tie goes to the even one)
Format3(charge) ==
    LET q == ChargeScale \div MilliScale
        r == charge % q
        down == charge - r
    IN  IF 2 * r < q THEN down
        ELSE IF 2 * r > q THEN down + q
        ELSE IF (down \div q) % 2 = 0 THEN down ELSE down + q

-----------------------------------------------------------------------------
(* _update: publishing *)

\* every path of the virtual device is created with the value None
NoBus ==
    [Voltage |-> None, Current |-> None, Power |-> None, Soc |-> None,
     TimeToGo |-> None, Capacity |-> None, InstalledCapacity |-> None,
     ConsumedAmphours |-> None, Temperature |-> None,
     MaxCellTemperature |-> None, MinCellTemperature |-> None,
     MaxCellVoltage |-> None, MaxVoltageCellId |-> NoName,
     MinCellVoltage |-> None, MinVoltageCellId |-> NoName,
     VoltagesSum |-> None, VoltagesDiff |-> None,
     NrOfModulesOnline |-> None, NrOfModulesOffline |-> None,
     NrOfModulesBlockingCharge |-> None, NrOfModulesBlockingDischarge |-> None,
     Alarms |-> [a \in AlarmKinds |-> None],
     MaxChargeCurrent |-> None, MaxDischargeCurrent |-> None,
     MaxChargeVoltage |-> None,
     AllowToCharge |-> None, AllowToDischarge |-> None, AllowToBalance |-> None]

\* lines 1125-1141: SoC, capacity, consumed Ah and time to go, from the Coulomb
\* counter (OWN_SOC) or from the batteries' weighted sums
ChargeValues(rd, charge, Current, lowSoc) ==
    IF settings.OWN_SOC
    THEN [Capacity |-> Frac(charge, ChargeScale),
          Soc |-> Frac(charge, rd.InstalledCapacity * (ChargeScale \div PercentScale)),
          ConsumedAmphours |->
              Frac(rd.InstalledCapacity * ChargeScale - charge, ChargeScale),
          TimeToGo |-> IF lowSoc = 0 /\ Current < 0
                       THEN Frac(charge, EfficiencyDen * (-Current))
                       ELSE None]
    ELSE [Capacity |-> Frac(rd.Capacity, 1),
          Soc |-> Frac(rd.Soc, rd.InstalledCapacity),
          ConsumedAmphours |-> Frac(rd.ConsumedAmphours, 1),
          TimeToGo |-> IF rd.TimeToGo # None
                       THEN Frac(rd.TimeToGo[1], rd.InstalledCapacity)
                       ELSE None]

\* the alarm severities of the virtual device
AlarmValues(rd) == [a \in AlarmKinds |-> _max(rd.alarm_list[a])]

\* the external-mode limits: the smallest advertised value, the currents
\* times the battery count
AdvertisedLimits(rd) ==
    [MaxChargeVoltage |-> _min(rd.MaxChargeVoltage_list),
     MaxChargeCurrent |-> ScaledMin(rd.MaxChargeCurrent_list),
     MaxDischargeCurrent |-> ScaledMin(rd.MaxDischargeCurrent_list)]

-----------------------------------------------------------------------------
(* _update *)

\* the call of a cycle whose try block fails
UpdateReadFailure(reads, d) ==
    LET out == ReadFailureOutcome(ReadTrialsCounted(_read_trials))
    IN  /\ _read_trials' = ReadTrialsCounted(_read_trials)
        /\ elapsed' = elapsed + d
        /\ hist' = Streak(Hist("_update", out), reads)
        /\ IF out = "exit"
           THEN Exit("DBus read failed")
           ELSE /\ KeepCalling("_update")
                /\ UNCHANGED <<proc, exit_reason>>
        /\ UNCHANGED <<uncaught, bus>>
        /\ UNCHANGED engineVars

\* the call of a cycle that ends in the TypeError of the external-mode limits
UpdateCrash(reads, d) ==
    /\ _read_trials' = 0
    /\ elapsed' = elapsed + d
    /\ hist' = Streak(Hist("_update", "crash"), reads)
    /\ Crash("_update")
    /\ uncaught' = TRUE
    /\ UNCHANGED <<proc, exit_reason, bus>>
    /\ UNCHANGED engineVars

\* the call of a cycle that runs to "return True" (each local is bound once,
\* in the order the code computes it)
UpdateCycle(reads, d, ve, lowSoc) ==
    \E rd \in {ReadBatteries(reads)} :
    \E Voltage \in {Average(rd.Voltage)} :
    \E maxCell \in {MaxKey(rd.MaxCellVoltage_dict)} :
    \E minCell \in {MinKey(rd.MinCellVoltage_dict)} :
    \E spread \in {maxCell.v - minCell.v} :
    \E cp \in {CurrentAndPower(rd, ve)} :
    \E own \in {settings.OWN_CHARGE_PARAMETERS} :
    \E bal \in {IF own
                THEN Balancing(_balancing, _last_balancing, today, Voltage, spread)
                ELSE [written |-> FALSE]} :
    \E dyn \in {IF own
                THEN DynamicCVL(maxCell.v, spread, rd.chargeVoltageReduced_list,
                                bal.ChargeVoltageBattery)
                ELSE [feedRead |-> FALSE]} :
    \E latch \in {FullyDischarged(_fully_discharged, minCell.v)} :
    \E snapped \in {IF own
                    THEN SnapCharge(_own_charge, Voltage, minCell.v,
                                    rd.InstalledCapacity)
                    ELSE _own_charge} :
    \E deltaTime \in {elapsed + d} :
    \E charge \in {ClampCharge(snapped + ChargeDelta(cp.Current, deltaTime),
                               rd.InstalledCapacity)} :
    \E save \in {SaveNeeded(charge, _own_charge_old, rd.InstalledCapacity)} :
    \E cv \in {ChargeValues(rd, charge, cp.Current, lowSoc)} :
    \E adv \in {IF own THEN [MaxChargeVoltage |-> None] ELSE AdvertisedLimits(rd)} :
        /\ _read_trials' = 0
        /\ elapsed' = 0
        /\ _balancing' = IF own THEN bal.balancing ELSE _balancing
        /\ _last_balancing' = IF own THEN bal.last ELSE _last_balancing
        /\ last_balancing_file' =
              IF own /\ bal.written THEN Some(bal.last) ELSE last_balancing_file
        /\ _dynamic_cvl' = IF own THEN dyn.dynamic ELSE _dynamic_cvl
        /\ _dc_feed_active' = IF own THEN dyn.dc_feed ELSE _dc_feed_active
        /\ feed_in' = IF own THEN dyn.feed_in ELSE feed_in
        /\ _fully_discharged' = IF own THEN latch ELSE _fully_discharged
        /\ _own_charge' = charge
        /\ _own_charge_old' = IF save THEN charge ELSE _own_charge_old
        /\ charge_file' = IF save THEN Some(Format3(charge)) ELSE charge_file
        /\ bus' =
              [Voltage |-> Voltage,
               Current |-> Some(cp.Current),
               Power |-> cp.Power,
               Soc |-> cv.Soc,
               TimeToGo |-> cv.TimeToGo,
               Capacity |-> cv.Capacity,
               InstalledCapacity |-> Some(rd.InstalledCapacity),
               ConsumedAmphours |-> cv.ConsumedAmphours,
               Temperature |-> Average(rd.Temperature),
               MaxCellTemperature |-> _max(rd.MaxCellTemp_list),
               MinCellTemperature |-> _min(rd.MinCellTemp_list),
               MaxCellVoltage |-> Some(maxCell.v),
               MaxVoltageCellId |-> maxCell.id,
               MinCellVoltage |-> Some(minCell.v),
               MinVoltageCellId |-> minCell.id,
               VoltagesSum |-> Average(SeqSum(rd.VoltagesSum_dict)),
               VoltagesDiff |-> Some(spread),
               NrOfModulesOnline |-> Some(rd.NrOfModulesOnline),
               NrOfModulesOffline |-> Some(rd.NrOfModulesOffline),
               NrOfModulesBlockingCharge |-> Some(rd.NrOfModulesBlockingCharge),
               NrOfModulesBlockingDischarge |-> Some(rd.NrOfModulesBlockingDischarge),
               Alarms |-> AlarmValues(rd),
               MaxChargeCurrent |->
                   IF own THEN ChargeCurrentLimit(rd.NrOfModulesBlockingCharge, maxCell.v)
                   ELSE adv.MaxChargeCurrent,
               MaxDischargeCurrent |->
                   IF own THEN DischargeCurrentLimit(rd.NrOfModulesBlockingDischarge,
                                                     latch, minCell.v)
                   ELSE adv.MaxDischargeCurrent,
               MaxChargeVoltage |->
                   IF own THEN Some(dyn.MaxChargeVoltage) ELSE adv.MaxChargeVoltage,
               AllowToCharge |-> _min(rd.AllowToCharge_list),
               AllowToDischarge |-> _min(rd.AllowToDischarge_list),
               AllowToBalance |-> _min(rd.AllowToBalance_list)]
        /\ hist' = [Streak(Hist("_update", "ok"), reads) EXCEPT
                       !.reads = reads,
                       !.balPath = IF own THEN LastOf(Follow(hist.balPath,
                                                             Tail(bal.trace)))
                                   ELSE hist.balPath,
                       !.deltaTime = deltaTime,
                       !.trace = IF own THEN bal.trace ELSE <<>>,
                       !.feedRead = own /\ dyn.feedRead,
                       !.feedPhase = IF own
                                     THEN FeedPhase(hist.feedPhase, dyn.feedRead,
                                                    feed_in, dyn.feedWrites)
                                     ELSE hist.feedPhase,
                       !.ve = ve,
                       !.riseFeed = IF own /\ dyn.dynamic /\ ~_dynamic_cvl
                                    THEN Some(feed_in) ELSE hist.riseFeed,
                       !.feedWrites = IF own THEN dyn.feedWrites ELSE <<>>,
                       !.lbWritten = own /\ bal.written,
                       !.chargeWritten = save,
                       !.published = TRUE]
        /\ KeepCalling("_update")
        /\ UNCHANGED <<proc, exit_reason, uncaught>>

_update(reads, d, ve, lowSoc) ==
    /\ Enabled("_update")
    /\ Len(reads) = Len(_batteries_dict)
    /\ IF ReadFailed(reads) THEN UpdateReadFailure(reads, d)
       ELSE IF ChargeParametersRaise(ReadBatteries(reads)) THEN UpdateCrash(reads, d)
       ELSE UpdateCycle(reads, d, ve, lowSoc)
    /\ UNCHANGED <<settings, monReady, today>>
    /\ UNCHANGED discoveryVars

-----------------------------------------------------------------------------
(* __init__ and the monitor thread *)

\* variant: int() where float() stands, the fraction of an Ah is dropped
ParseFloatWhole(file) == (file[1] \div ChargeScale) * ChargeScale

\* float(self._charge_file.readline().strip())
ParseFloat(file) == file[1]

\* int(self._last_balancing_file.readline().strip())
ParseInt(file) == file[1]

\* variant: the last_balancing file is read in every mode
StartupOutcomeBothFiles(charge, balancing) ==
    IF charge = None THEN "charge"
    ELSE IF balancing = None THEN "balancing"
    ELSE "done"

\* lines 91-131: the persisted files are read, the last_balancing file only
\* with OWN_CHARGE_PARAMETERS; None is an absent or non-numeric file
StartupOutcome(charge, balancing) ==
    IF charge = None THEN "charge"
    ELSE IF settings.OWN_CHARGE_PARAMETERS /\ balancing = None THEN "balancing"
    ELSE "done"

FilesReadable == StartupOutcome(charge_file, last_balancing_file) = "done"

__init__ ==
    /\ proc = "start"
    /\ IF FilesReadable
       THEN /\ _own_charge' = ParseFloat(charge_file)
            /\ _own_charge_old' = ParseFloat(charge_file)
            /\ _last_balancing' = IF settings.OWN_CHARGE_PARAMETERS
                                  THEN ParseInt(last_balancing_file) ELSE 0
            /\ proc' = "running"
            /\ timers' = {"_find_settings"}
            /\ UNCHANGED exit_reason
       ELSE /\ Exit(IF charge_file = None THEN "Charge file read error"
                    ELSE "Last balancing file read error")
            /\ UNCHANGED <<_own_charge, _own_charge_old, _last_balancing>>
    /\ hist' = Hist("__init__", IF FilesReadable THEN "done" ELSE "exit")
    /\ UNCHANGED <<settings, uncaught, monReady, _read_trials, elapsed, today, bus,
                   _fully_discharged, _dc_feed_active, _balancing, _dynamic_cvl,
                   charge_file, last_balancing_file, feed_in>>
    /\ UNCHANGED discoveryVars

\* the thread started by __init__ creates self._dbusMon
_startMonitor ==
    /\ proc = "running"
    /\ ~monReady
    /\ monReady' = TRUE
    /\ UNCHANGED <<settings, proc, exit_reason, timers, uncaught, _read_trials,
                   elapsed, today, bus, hist>>
    /\ UNCHANGED discoveryVars
    /\ UNCHANGED engineVars

\* the process ends or is ended and main() runs again: the attributes are
\* those of a new DbusAggBatService, the files and the settings service stay
Restart ==
    /\ proc \in {"running", "exited"}
    /\ proc' = "start"
    /\ exit_reason' = ""
    /\ timers' = {}
    /\ uncaught' = FALSE
    /\ monReady' = FALSE
    /\ _settings' = Unset
    /\ _batteries_dict' = <<>>
    /\ _multi' = NoName
    /\ _mppts_list' = <<>>
    /\ _smart_shunt' = NoName
    /\ _search_trials' = 0
    /\ _read_trials' = 0
    /\ _fully_discharged' = FALSE
    /\ _dc_feed_active' = "False"
    /\ _balancing' = 0
    /\ _last_balancing' = 0
    /\ _dynamic_cvl' = FALSE
    /\ _own_charge' = 0
    /\ _own_charge_old' = 0
    /\ elapsed' = 0
    /\ bus' = NoBus
    /\ hist' = [NoHist EXCEPT !.restarted = TRUE,
                              !.drifted = /\ proc = "running"
                                          /\ _own_charge # charge_file[1]]
    /\ UNCHANGED <<settings, charge_file, last_balancing_file, feed_in, today>>

\* the calendar day changes between two calls
DayPasses(days) ==
    /\ proc = "running"
    /\ today' \in days \ {today}
    /\ UNCHANGED <<settings, proc, exit_reason, timers, uncaught, monReady,
                   _read_trials, elapsed, bus, hist>>
    /\ UNCHANGED discoveryVars
    /\ UNCHANGED engineVars

\* /Settings/CGwacs/OvervoltageFeedIn is changed by its owner
FeedInSwitched ==
    /\ proc = "running"
    /\ feed_in' = 1 - feed_in
    /\ hist' = [hist EXCEPT !.op = "feed_in"]
    /\ UNCHANGED <<settings, proc, exit_reason, timers, uncaught, monReady,
                   _read_trials, elapsed, today, bus, _fully_discharged,
                   _dc_feed_active, _balancing, _last_balancing, _dynamic_cvl,
                   _own_charge, _own_charge_old, charge_file, last_balancing_file>>
    /\ UNCHANGED discoveryVars

-----------------------------------------------------------------------------
(* What the batteries and the Victron devices answer *)

\* the cell a battery names as its highest / lowest: the first such cell
CellId(cells, v) ==
    "C" \o ToString(CHOOSE j \in Range(Len(cells)) :
                        cells[j] = v /\ \A i \in 1..(j - 1) : cells[i] # v)

CellsMax(cells) == CHOOSE m \in {cells[j] : j \in Range(Len(cells))} :
                       \A j \in Range(Len(cells)) : cells[j] <= m

CellsMin(cells) == CHOOSE m \in {cells[j] : j \in Range(Len(cells))} :
                       \A j \in Range(Len(cells)) : m <= cells[j]

\* a battery at rest: every get_value answers
BaseReading ==
    [fail |-> FALSE, Voltage |-> 676, Current |-> 0, Power |-> 0,
     InstalledCapacity |-> 100, ConsumedAmphours |-> 50, Capacity |-> 50,
     Soc |-> 50, TimeToGo |-> None, Temperature |-> 20,
     MaxCellTemperature |-> 21, MinCellTemperature |-> 19,
     Cells |-> <<338, 338>>, MaxVoltageCellId |-> "C1", MaxCellVoltage |-> 338,
     MinVoltageCellId |-> "C1", MinCellVoltage |-> 338, VoltagesSum |-> Some(676),
     NrOfModulesOnline |-> 1, NrOfModulesOffline |-> 0,
     NrOfModulesBlockingCharge |-> 0, NrOfModulesBlockingDischarge |-> 0,
     Alarms |-> [a \in AlarmKinds |-> Some(0)],
     MaxChargeCurrent |-> Some(50), MaxDischargeCurrent |-> Some(60),
     MaxChargeVoltage |-> Some(690),
     AllowToCharge |-> Some(1), AllowToDischarge |-> Some(1),
     AllowToBalance |-> Some(1)]

\* a battery whose cells are at the given voltages and whose DC voltage is v
WithCells(r, cells, v) ==
    [r EXCEPT !.Cells = cells, !.Voltage = v,
              !.VoltagesSum = Some(SeqSum(cells)),
              !.MaxCellVoltage = CellsMax(cells),
              !.MaxVoltageCellId = CellId(cells, CellsMax(cells)),
              !.MinCellVoltage = CellsMin(cells),
              !.MinVoltageCellId = CellId(cells, CellsMin(cells))]

FailingReading == [BaseReading EXCEPT !.fail = TRUE]

\* a battery at 60 % with a low-SoC warning
Reading60 ==
    [BaseReading EXCEPT !.Voltage = 680, !.Temperature = 25, !.Soc = 60,
                        !.Capacity = 60, !.ConsumedAmphours = 40,
                        !.Alarms = [a \in AlarmKinds |->
                                       IF a = "LowSoc" THEN Some(1) ELSE Some(0)]]

\* a battery of twice the size at 70 % with a high-voltage alarm, whose
\* /Alarms/LowSoc is None
Reading70 ==
    [BaseReading EXCEPT !.Voltage = 685, !.Temperature = 30, !.Soc = 70,
                        !.InstalledCapacity = 200, !.Capacity = 140,
                        !.ConsumedAmphours = 60,
                        !.Alarms = [a \in AlarmKinds |->
                                       IF a = "LowSoc" THEN None
                                       ELSE IF a = "HighVoltage" THEN Some(2)
                                       ELSE Some(0)]]

\* batteries at the normal target, at the balancing target, and at the
\* balancing target with the cells apart
ReadingNormal == WithCells(BaseReading, <<338, 338>>, 676)

ReadingBalanced == WithCells(BaseReading, <<345, 345>>, 690)

ReadingApart == WithCells(BaseReading, <<343, 347>>, 690)

\* a battery with one cell above the ceiling, and one with a cell at it
ReadingPeak == WithCells(BaseReading, <<355, 320>>, 675)

ReadingCeiling == WithCells(BaseReading, <<353, 340>>, 693)

\* batteries with the lowest cell at the floor, halfway up the hysteresis
\* margin, and above it
ReadingEmpty == WithCells(BaseReading, <<280, 300>>, 580)

ReadingRecovering == WithCells(BaseReading, <<295, 300>>, 595)

ReadingRecovered == WithCells(BaseReading, <<311, 320>>, 631)

\* a battery charged with 50 A, discharged with 25 A, and one of half the size
ReadingCharging == [ReadingNormal EXCEPT !.Current = 50, !.Power = 3380]

ReadingDischarging == [ReadingNormal EXCEPT !.Current = -25, !.Power = -1690]

ReadingSmall == [ReadingNormal EXCEPT !.InstalledCapacity = 50]

\* a battery charged with 200 A
ReadingFast == [ReadingNormal EXCEPT !.Current = 200, !.Power = 135200]

\* a battery discharged with 10 A
ReadingDraining == [ReadingNormal EXCEPT !.Current = -10, !.Power = -676]

\* a battery being charged, at the balancing target with one cell at the floor
ReadingFullAndEmpty ==
    [WithCells(BaseReading, <<280, 410>>, 690) EXCEPT !.Current = 50,
                                                      !.Power = 3450]

\* one module of the battery blocks charging
ReadingBlocked == [ReadingNormal EXCEPT !.NrOfModulesBlockingCharge = 1]

\* a battery whose /Voltages/Sum is None
ReadingNoSum == [BaseReading EXCEPT !.VoltagesSum = None]

\* batteries that give a time to go: an hour, and two hours at twice the size
ReadingTimed == [BaseReading EXCEPT !.TimeToGo = Some(3600)]

ReadingTimedLarge ==
    [BaseReading EXCEPT !.TimeToGo = Some(7200), !.InstalledCapacity = 200]

\* batteries whose /Info/MaxChargeCurrent or /Info/MaxChargeVoltage is None,
\* and one that advertises lower limits
ReadingNoCcl == [BaseReading EXCEPT !.MaxChargeCurrent = None]

ReadingNoCvl == [BaseReading EXCEPT !.MaxChargeVoltage = None]

ReadingTight ==
    [BaseReading EXCEPT !.MaxChargeCurrent = Some(20),
                        !.MaxDischargeCurrent = Some(30),
                        !.MaxChargeVoltage = Some(680)]

\* one reading per battery of self._batteries_dict, each from the set R
ReadingsOf(R) == [Range(Len(_batteries_dict)) -> R]

\* every battery gives the same reading, one of the set R
AllAlike(R) == {[k \in Range(Len(_batteries_dict)) |-> r] : r \in R}

\* one battery gives the reading r, the others the reading rest
OneDiffers(r, rest) ==
    {[k \in Range(Len(_batteries_dict)) |-> IF k = odd THEN r ELSE rest] :
       odd \in Range(Len(_batteries_dict))}

\* the passes in which the read of one battery raises
OneFails ==
    {[k \in Range(Len(_batteries_dict)) |->
         IF k = bad THEN FailingReading ELSE BaseReading] :
       bad \in Range(Len(_batteries_dict))}

\* the inverter, the solar chargers and the shunt answer 0 A
QuietVictron ==
    [raises |-> FALSE, multi |-> Some(0),
     mppts |-> [i \in Range(MaxMppts + 1) |-> Some(0)], shunt |-> Some(0)]

\* what the inverter/charger, the solar chargers and the shunt answer: each a
\* current or None, or a get_value raises
VictronAnswers ==
    {[raises |-> FALSE, multi |-> m, mppts |-> [i \in Range(MaxMppts + 1) |-> p],
      shunt |-> sh] :
        m \in {Some(300), None}, p \in {Some(30), None}, sh \in {Some(50), None}}
    \cup {[QuietVictron EXCEPT !.raises = TRUE]}

-----------------------------------------------------------------------------
(* Initial states *)

\* settings.py as loaded: the battery count, the current source and the MPPT
\* count vary, the modes are those given
SettingsOf(batteries, victron, mppts, own, own_soc, zero_soc) ==
    [NR_OF_BATTERIES : batteries, CURRENT_FROM_VICTRON : victron,
     NR_OF_MPPTS : mppts, OWN_CHARGE_PARAMETERS : own, OWN_SOC : own_soc,
     ZERO_SOC : zero_soc, DC_LOADS : {FALSE}, INVERT_SMARTSHUNT : {FALSE}]

\* the state before DbusAggBatService() is constructed, with the arguments of
\* a call of Functions._interpolate still to be made (calls)
InitState(S, chargeFiles, balancingFiles, feedIns, days, calls) ==
    /\ settings \in S
    /\ proc = "start"
    /\ exit_reason = ""
    /\ timers = {}
    /\ uncaught = FALSE
    /\ monReady = FALSE
    /\ _settings = Unset
    /\ _batteries_dict = <<>>
    /\ _multi = NoName
    /\ _mppts_list = <<>>
    /\ _smart_shunt = NoName
    /\ _search_trials = 0
    /\ _read_trials = 0
    /\ _fully_discharged = FALSE
    /\ _dc_feed_active = "False"
    /\ _balancing = 0
    /\ _last_balancing = 0
    /\ _dynamic_cvl = FALSE
    /\ _own_charge = 0
    /\ _own_charge_old = 0
    /\ elapsed = 0
    /\ charge_file \in chargeFiles
    /\ last_balancing_file \in balancingFiles
    /\ feed_in \in feedIns
    /\ today \in days
    /\ bus = NoBus
    /\ hist \in {[NoHist EXCEPT !.call = c] : c \in calls}

InitWith(S, chargeFiles, balancingFiles, feedIns, days) ==
    InitState(S, chargeFiles, balancingFiles, feedIns, days, {<<>>})

\* a charge file holding the given Ah
ChargeFileOf(ah) == Some(ah * ChargeScale)

-----------------------------------------------------------------------------
(* Discovery: every listing of the services, batteries at rest or failing *)

Init ==
    InitWith(SettingsOf(1..MaxBatteries, BOOLEAN, 0..MaxMppts, {TRUE}, {FALSE}, {FALSE}),
             {ChargeFileOf(50), None}, {Some(1)}, {1}, {2})

Next ==
    \/ __init__
    \/ _startMonitor
    \/ \E dir \in Listings(Universe, "settings") : _find_settings(dir)
    \/ \E dir \in Listings(Universe, "battery") : _find_batteries(dir)
    \/ \E dir \in Listings(Universe, "vebus") : _find_multis(dir)
    \/ \E dir \in Listings(Universe, "solarcharger") : _find_mppts(dir)
    \/ \E reads \in ReadingsOf({BaseReading, FailingReading}) :
          _update(reads, 1, QuietVictron, 0)

Spec == Init /\ [][Next]_vars

-----------------------------------------------------------------------------
(* Aggregation: four batteries installed, readings that differ in voltage,  *)
(* temperature, SoC, capacity and alarms, or fail                           *)

CycleSite ==
    Installed({"com.victronenergy.settings", "battery.ttyUSB0", "battery.ttyUSB1",
               "battery.ttyUSB2", "battery.ttyUSB3"})

InitCycle ==
    InitWith(SettingsOf(1..MaxBatteries, {FALSE}, {0}, {TRUE}, {FALSE}, {FALSE}),
             {ChargeFileOf(50)}, {Some(1)}, {1}, {2})

NextCycle ==
    \/ __init__
    \/ _startMonitor
    \/ \E dir \in Listings(CycleSite, "settings") : _find_settings(dir)
    \/ \E dir \in Listings(CycleSite, "battery") : _find_batteries(dir)
    \/ \E reads \in ReadingsOf({BaseReading, Reading60, Reading70}) \cup OneFails :
          _update(reads, 1, QuietVictron, 0)

SpecCycle == InitCycle /\ [][NextCycle]_vars

-----------------------------------------------------------------------------
(* Balancing: two batteries installed, the days pass, the batteries are at  *)
(* the normal or at the balancing target                                    *)

BalancingSite ==
    Installed({"com.victronenergy.settings", "battery.ttyUSB0", "battery.ttyUSB1"})

BalancingDays == {2, 3, 4}

InitBalancing ==
    InitWith(SettingsOf(1..MaxBatteries, {FALSE}, {0}, {TRUE}, {FALSE}, {FALSE}),
             {ChargeFileOf(50)}, {Some(1)}, {1}, {2})

NextBalancing ==
    \/ __init__
    \/ _startMonitor
    \/ \E dir \in Listings(BalancingSite, "settings") : _find_settings(dir)
    \/ \E dir \in Listings(BalancingSite, "battery") : _find_batteries(dir)
    \/ \E reads \in ReadingsOf({ReadingNormal, ReadingBalanced, ReadingApart,
                                 ReadingBlocked}) :
          _update(reads, 1, QuietVictron, 0)
    \/ DayPasses(BalancingDays)

SpecBalancing == InitBalancing /\ [][NextBalancing]_vars

-----------------------------------------------------------------------------
(* Limits: two batteries installed, alike or one of them peaking; cells at  *)
(* the ceiling, apart, at the floor and in the hysteresis margin; the       *)
(* feed-in setting on or off                                                *)

LimitsSite ==
    Installed({"com.victronenergy.settings", "battery.ttyUSB0", "battery.ttyUSB1"})

LimitsReadings ==
    {ReadingNormal, ReadingPeak, ReadingCeiling, ReadingApart, ReadingEmpty,
     ReadingRecovering, ReadingRecovered}

InitLimits ==
    InitWith(SettingsOf(1..MaxBatteries, {FALSE}, {0}, {TRUE}, {FALSE}, {FALSE}),
             {ChargeFileOf(50)}, {Some(1)}, {0, 1}, {2})

NextLimits ==
    \/ __init__
    \/ _startMonitor
    \/ \E dir \in Listings(LimitsSite, "settings") : _find_settings(dir)
    \/ \E dir \in Listings(LimitsSite, "battery") : _find_batteries(dir)
    \/ \E reads \in AllAlike(LimitsReadings)
                       \cup OneDiffers(ReadingPeak, ReadingNormal) \cup OneFails :
          _update(reads, 1, QuietVictron, 0)
    \/ FeedInSwitched

SpecLimits == InitLimits /\ [][NextLimits]_vars

-----------------------------------------------------------------------------
(* Coulomb counter: one battery installed, charged or discharged for an     *)
(* hour or more between two published cycles, at the balancing target, at   *)
(* the floor, or replaced by a smaller one                                  *)

ChargeSite == Installed({"com.victronenergy.settings", "battery.ttyUSB0"})

ChargeReadings ==
    {ReadingCharging, ReadingDischarging, ReadingSmall, ReadingBalanced,
     ReadingEmpty, ReadingFullAndEmpty}

InitCharge ==
    InitWith(SettingsOf(1..MaxBatteries, {FALSE}, {0}, {TRUE}, {FALSE}, BOOLEAN),
             {ChargeFileOf(50)}, {Some(1)}, {1}, {2})

NextCharge ==
    \/ __init__
    \/ _startMonitor
    \/ \E dir \in Listings(ChargeSite, "settings") : _find_settings(dir)
    \/ \E dir \in Listings(ChargeSite, "battery") : _find_batteries(dir)
    \/ \E reads \in ReadingsOf(ChargeReadings) \cup OneFails :
          _update(reads, SecondsPerHour, QuietVictron, 0)

SpecCharge == InitCharge /\ [][NextCharge]_vars

-----------------------------------------------------------------------------
(* Startup: the persisted files present or not, both modes, one battery     *)
(* that is discharged and balanced, the process started again               *)

StartupSite == Installed({"com.victronenergy.settings", "battery.ttyUSB0"})

StartupReadings == {ReadingNormal, ReadingBalanced, ReadingDraining}

StartupDays == {2, 3}

\* a charge file holding 50.5 Ah
ChargeFileHalf == Some(50 * ChargeScale + ChargeScale \div 2)

InitStartup ==
    InitWith(SettingsOf(1..MaxBatteries, {FALSE}, {0}, BOOLEAN, {FALSE}, {FALSE}),
             {ChargeFileHalf, None}, {Some(1), None}, {1}, {2})

NextStartup ==
    \/ __init__
    \/ _startMonitor
    \/ \E dir \in Listings(StartupSite, "settings") : _find_settings(dir)
    \/ \E dir \in Listings(StartupSite, "battery") : _find_batteries(dir)
    \/ \E reads \in ReadingsOf(StartupReadings) :
          _update(reads, SecondsPerHour, QuietVictron, 0)
    \/ DayPasses(StartupDays)
    \/ Restart

SpecStartup == InitStartup /\ [][NextStartup]_vars

-----------------------------------------------------------------------------
(* External current: one battery, a shunt, an inverter/charger and two      *)
(* solar chargers installed, each answering or not                          *)

VictronSite ==
    Installed({"com.victronenergy.settings", "battery.ttyUSB0", "battery.ttyS6",
               "vebus.ttyS4", "solarcharger.ttyS1", "solarcharger.ttyS2"})

VictronSettings ==
    {[s EXCEPT !.DC_LOADS = dc, !.INVERT_SMARTSHUNT = inv] :
        s \in SettingsOf({1}, {TRUE}, 0..MaxMppts, {TRUE}, {FALSE}, {FALSE}),
        dc \in BOOLEAN, inv \in BOOLEAN}

InitVictron ==
    InitWith(VictronSettings, {ChargeFileOf(50)}, {Some(1)}, {1}, {2})

NextVictron ==
    \/ __init__
    \/ _startMonitor
    \/ \E dir \in Listings(VictronSite, "settings") : _find_settings(dir)
    \/ \E dir \in Listings(VictronSite, "battery") : _find_batteries(dir)
    \/ \E dir \in Listings(VictronSite, "vebus") : _find_multis(dir)
    \/ \E dir \in Listings(VictronSite, "solarcharger") : _find_mppts(dir)
    \/ \E reads \in ReadingsOf({ReadingFast}) \cup OneFails :
       \E ve \in VictronAnswers :
          _update(reads, SecondsPerHour, ve, 0)

SpecVictron == InitVictron /\ [][NextVictron]_vars

-----------------------------------------------------------------------------
(* Names: four batteries installed, two without custom name and two with    *)
(* the same custom name                                                     *)

NamesSite ==
    << Svc("com.victronenergy.settings", "settings", NoName, NoName, 0),
       Svc("battery.ttyUSB0", "battery", "SerialBattery", NoName, NR_OF_CELLS_PER_BATTERY),
       Svc("battery.ttyUSB1", "battery", "SerialBattery", "B", NR_OF_CELLS_PER_BATTERY),
       Svc("battery.ttyUSB2", "battery", "SerialBattery", NoName, NR_OF_CELLS_PER_BATTERY),
       Svc("battery.ttyUSB3", "battery", "SerialBattery", "B", NR_OF_CELLS_PER_BATTERY) >>

InitNames ==
    InitWith(SettingsOf(1..MaxBatteries, {FALSE}, {0}, {TRUE}, {FALSE}, {FALSE}),
             {ChargeFileOf(50)}, {Some(1)}, {1}, {2})

NextNames ==
    \/ __init__
    \/ _startMonitor
    \/ \E dir \in Listings(NamesSite, "settings") : _find_settings(dir)
    \/ \E dir \in Listings(NamesSite, "battery") : _find_batteries(dir)
    \/ \E reads \in ReadingsOf({BaseReading, FailingReading}) :
          _update(reads, 1, QuietVictron, 0)

SpecNames == InitNames /\ [][NextNames]_vars

-----------------------------------------------------------------------------
(* Absent values: two batteries installed, both modes; a battery gives no   *)
(* cell-voltage sum, no time to go, or no charge current or voltage limit   *)

AbsentSite ==
    Installed({"com.victronenergy.settings", "battery.ttyUSB0", "battery.ttyUSB1"})

AbsentReadings ==
    {BaseReading, ReadingNoSum, ReadingTimed, ReadingTimedLarge, ReadingNoCcl,
     ReadingNoCvl, ReadingTight}

InitAbsent ==
    InitWith(SettingsOf(1..MaxBatteries, {FALSE}, {0}, BOOLEAN, {FALSE}, {FALSE}),
             {ChargeFileOf(50)}, {Some(1)}, {1}, {2})

NextAbsent ==
    \/ __init__
    \/ _startMonitor
    \/ \E dir \in Listings(AbsentSite, "settings") : _find_settings(dir)
    \/ \E dir \in Listings(AbsentSite, "battery") : _find_batteries(dir)
    \/ \E reads \in ReadingsOf(AbsentReadings) \cup OneFails :
          _update(reads, 1, QuietVictron, 0)

SpecAbsent == InitAbsent /\ [][NextAbsent]_vars

-----------------------------------------------------------------------------
(* Months: one battery, in self-managed or in external mode, over the last  *)
(* days of September and October and the first of November and December;    *)
(* the normal target of September equals the balancing target, that of      *)
(* December lies above it; the process may be restarted                     *)
MonthsSite == Installed({"com.victronenergy.settings", "battery.ttyUSB0"})

MonthsDays == {273, 304, 305, 335}

InitMonths ==
    InitWith(SettingsOf({1}, {FALSE}, {0}, BOOLEAN, {FALSE}, {FALSE}),
             {ChargeFileOf(50)}, {Some(1), Some(303)}, {1}, {304})

NextMonths ==
    \/ __init__
    \/ _startMonitor
    \/ \E dir \in Listings(MonthsSite, "settings") : _find_settings(dir)
    \/ \E dir \in Listings(MonthsSite, "battery") : _find_batteries(dir)
    \/ \E reads \in ReadingsOf({ReadingNormal, ReadingBalanced, ReadingApart}) :
          _update(reads, 1, QuietVictron, 0)
    \/ DayPasses(MonthsDays)
    \/ Restart

SpecMonths == InitMonths /\ [][NextMonths]_vars

-----------------------------------------------------------------------------
(* Properties *)

DiscoveryErrors ==
    {"Required number of batteries not found",
     "Number of cells of batteries is not correct"}

\* C1: as long as every FindBatteries poll saw fewer matching services than
\* required, _update is not scheduled, and once the polls exceed the trial
\* budget the process has exited with a discovery error
C1_DiscoveryExhaustion ==
    hist.allShort =>
        /\ "_update" \notin timers
        /\ hist.polls > SEARCH_TRIALS =>
              (proc = "exited" /\ exit_reason \in DiscoveryErrors)

\* two batteries required, one present on each of the SEARCH_TRIALS + 1 polls
C1_Witness ==
    /\ hist.allShort
    /\ hist.polls = SEARCH_TRIALS + 1
    /\ settings.NR_OF_BATTERIES = 2
    /\ hist.matching = 1
    /\ proc = "exited"
    /\ exit_reason = "Required number of batteries not found"

\* the callbacks a callback hands over to
Successors(f) ==
    CASE f = "_find_settings" -> {"_find_batteries"}
      [] f = "_find_batteries" -> {"_find_multis", "_update"}
      [] f = "_find_multis" -> {"_find_mppts", "_update"}
      [] f = "_find_mppts" -> {"_update"}
      [] OTHER -> {}

\* C2: the registered callback changes only from one discovery state to a later
\* one in the order _find_settings, _find_batteries, _find_multis, _find_mppts,
\* _update, and _update is registered only with the settings service found and
\* the last FindBatteries poll having accepted exactly NR_OF_BATTERIES batteries
C2_DiscoveryOrder ==
    [][ /\ \/ timers' = timers
           \/ timers' = {}
           \/ proc = "start" /\ timers = {} /\ timers' = {"_find_settings"}
           \/ \E f \in timers : \E g \in Successors(f) :
                 timers = {f} /\ timers' = {g}
        /\ "_update" \in timers' =>
              /\ _settings' \notin {Unset, NoName}
              /\ hist'.count = settings.NR_OF_BATTERIES ]_vars

\* every discovery state was passed and _update is registered
C2_Witness ==
    /\ "_update" \in timers
    /\ hist.op = "_find_mppts"
    /\ _multi # NoName
    /\ _settings \notin {Unset, NoName}
    /\ hist.count = settings.NR_OF_BATTERIES

\* C3: with the current taken from the Victron devices and no inverter/charger
\* found, _update is not registered, and a FindMultis poll either stays
\* registered for the next trial or has ended the process
C3_NoAggregationWithoutMulti ==
    (settings.CURRENT_FROM_VICTRON /\ _multi = NoName) =>
        /\ "_update" \notin timers
        /\ hist.op = "_find_multis" =>
              \/ proc = "running" /\ "_find_multis" \in timers
              \/ proc = "exited" /\ exit_reason = "Multi/Quattro not found"

\* C4: a FindMppts poll that sees exactly the NR_OF_MPPTS > 0 configured solar
\* chargers records them and registers _update
C4_MpptsFound ==
    (/\ hist.op = "_find_mppts"
     /\ settings.NR_OF_MPPTS > 0
     /\ hist.mpptSeen = settings.NR_OF_MPPTS) =>
        /\ hist.result = "done"
        /\ proc = "running"
        /\ "_update" \in timers
        /\ Len(_mppts_list) = settings.NR_OF_MPPTS

UpdateStep ==
    /\ Enabled("_update")
    /\ monReady' = monReady
    /\ today' = today

\* C6: a call of _update in which a battery read fails leaves the published
\* properties, the engine state and the discovery results as they are and adds
\* one to the failure counter
C6_FailedCycleFrame ==
    [][ (UpdateStep /\ hist'.failStreak > 0) =>
            /\ bus' = bus
            /\ engineVars' = engineVars
            /\ discoveryVars' = discoveryVars
            /\ _read_trials' = _read_trials + 1 ]_vars

\* a failed cycle after a published one: the snapshot is still the published one
C6_Witness ==
    /\ hist.op = "_update"
    /\ hist.result = "retry"
    /\ hist.failStreak = 1
    /\ _read_trials = 1
    /\ bus # NoBus

\* C7: while _update is registered the failure counter equals the number of
\* failed cycles in a row and is within READ_TRIALS; the process has ended for
\* read failure exactly when that number exceeded READ_TRIALS
C7_ConsecutiveFailures ==
    /\ (proc = "running" /\ "_update" \in timers) =>
          (_read_trials = hist.failStreak /\ hist.failStreak <= READ_TRIALS)
    /\ exit_reason = "DBus read failed" => hist.failStreak = READ_TRIALS + 1
    /\ hist.failStreak > READ_TRIALS =>
          (proc = "exited" /\ exit_reason = "DBus read failed")

\* READ_TRIALS failed cycles, then a successful one: the counter is back at 0
C7_Witness ==
    /\ hist.op = "_update"
    /\ hist.result = "ok"
    /\ hist.deltaTime = READ_TRIALS + 1
    /\ _read_trials = 0
    /\ proc = "running"

\* the sum of a field over the batteries read in the published cycle
ReadSum(field) == SeqSum(Column(hist.reads, field))

\* the sum of soc_i * installedCapacity_i over these batteries
ReadSocSum ==
    SeqSum([k \in Range(Len(hist.reads)) |->
               hist.reads[k].Soc * hist.reads[k].InstalledCapacity])

ExampleRead ==
    /\ bus.Voltage # None
    /\ Column(hist.reads, "Soc") = <<50, 60, 70>>
    /\ Column(hist.reads, "InstalledCapacity") = <<100, 100, 200>>

C8_MeanOverRead ==
    bus.Voltage # None =>
        FracEq(bus.Voltage, Frac(ReadSum("Voltage"), Len(hist.reads)))

\* the severities of one alarm kind in the published cycle
Severities(a) == [k \in Range(Len(hist.reads)) |-> hist.reads[k].Alarms[a]]

LargestOf(list) ==
    CHOOSE m \in {list[k][1] : k \in Range(Len(list))} :
        \A k \in Range(Len(list)) : list[k][1] <= m

CycleStep == UpdateStep /\ hist'.op = "_update" /\ hist'.result = "ok"

\* C10: with the normal target below the balancing target, a published cycle
\* takes BalancingState from Inactive to Pending when the repetition interval
\* has elapsed, from Pending to GoalReached when the voltage is at the balancing
\* target with the cells together, and from GoalReached to Inactive when the
\* voltage is at or below the normal target, storing and saving today as the
\* last balancing day
C10_BalancingTrace ==
    [][ (CycleStep /\ CVL_NORMAL(today) < CVL_BALANCING) =>
            LET due == TimeUnbalanced(today, _last_balancing) >= BALANCING_REPETITION
                goal == /\ FracGeInt(bus'.Voltage, CVL_BALANCING)
                        /\ bus'.VoltagesDiff[1] < CELL_DIFF_MAX
                low == FracLeInt(bus'.Voltage, CVL_NORMAL(today))
            IN  /\ (_balancing = 0 /\ due) => _balancing' = IF goal THEN 2 ELSE 1
                /\ (_balancing = 1 /\ goal) => _balancing' = 2
                /\ (_balancing = 2 /\ low) =>
                      /\ _balancing' = 0
                      /\ _last_balancing' = today
                      /\ last_balancing_file' = Some(today) ]_vars

\* the whole round: Inactive, Pending, GoalReached, Inactive, today saved
C10_Witness ==
    /\ hist.op = "_update"
    /\ hist.balPath = <<0, 1, 2, 0>>
    /\ hist.lbWritten
    /\ _balancing = 0
    /\ _last_balancing = today
    /\ last_balancing_file = Some(today)

\* the batteries' cell-sum voltage less the cells' excess above the ceiling,
\* in the published cycle
ReducedVoltages ==
    {hist.reads[k].VoltagesSum[1]
        - SeqSum([j \in Range(NR_OF_CELLS_PER_BATTERY) |->
                     Max2(hist.reads[k].Cells[j] - MAX_CELL_VOLTAGE, 0)]) :
       k \in Range(Len(hist.reads))}

\* C11: in a published cycle with the highest cell at or above the ceiling,
\* the published charge voltage limit is at most each battery's cell-sum
\* voltage less the sum of its cells' excess above the ceiling
C11_ReducedLimit ==
    (/\ settings.OWN_CHARGE_PARAMETERS
     /\ bus.MaxCellVoltage # None
     /\ bus.MaxCellVoltage[1] >= MAX_CELL_VOLTAGE) =>
        \A v \in ReducedVoltages : bus.MaxChargeVoltage[1] <= v

\* two batteries, one of them peaking: the limit is that battery's reduced
\* voltage, below the battery target
C11_Witness ==
    /\ bus.MaxCellVoltage # None
    /\ bus.MaxCellVoltage[1] > MAX_CELL_VOLTAGE
    /\ Cardinality(ReducedVoltages) = 2
    /\ bus.MaxChargeVoltage[1] \in ReducedVoltages
    /\ bus.MaxChargeVoltage[1] < CVL_NORMAL(today)

\* the published cycle saw the cells below the ceiling and together
CellsCalm(b) ==
    /\ b.MaxCellVoltage[1] < MAX_CELL_VOLTAGE
    /\ b.VoltagesDiff[1] < CELL_DIFF_MAX

\* C12: once the feed-in setting was read as enabled and written to 0, a
\* published cycle writes it to 1 exactly when it is the first since then with
\* the highest cell below the ceiling and the cell spread below the threshold
C12_RestoredOnce ==
    [][ (CycleStep /\ settings.OWN_CHARGE_PARAMETERS) =>
            /\ hist'.feedWrites = <<1>> <=>
                   (hist.feedPhase = "disabled" /\ CellsCalm(bus'))
            /\ hist'.feedWrites = <<1>> => feed_in' = 1 ]_vars

\* the setting was written back, and the next calm cycle leaves it alone
C12_Witness ==
    /\ hist.op = "_update"
    /\ hist.result = "ok"
    /\ hist.feedPhase = "restored"
    /\ CellsCalm(bus)
    /\ hist.feedWrites = <<>>
    /\ feed_in = 1
    /\ _dc_feed_active = "False"

\* C13: while the dynamic-reduction latch stays set from one published cycle
\* to the next, the later cycle does not write the feed-in setting
C13_OneWritePerEdge ==
    [][ (CycleStep /\ settings.OWN_CHARGE_PARAMETERS
            /\ _dynamic_cvl /\ _dynamic_cvl') =>
            hist'.feedWrites = <<>> ]_vars

\* C14: a published cycle with the lowest cell at or below the floor sets the
\* discharge latch and publishes a discharge current limit of 0; with the
\* latch set, a cycle with the lowest cell at or below floor + margin keeps it
\* set and publishes 0; the latch clears only in a cycle with the lowest cell
\* above floor + margin
C14_DischargeHysteresis ==
    [][ (CycleStep /\ settings.OWN_CHARGE_PARAMETERS) =>
            LET low == bus'.MinCellVoltage[1]
                held == /\ _fully_discharged'
                        /\ FracEq(bus'.MaxDischargeCurrent, Frac(0, 1))
            IN  /\ low <= MIN_CELL_VOLTAGE => held
                /\ (_fully_discharged
                      /\ low <= MIN_CELL_VOLTAGE + MIN_CELL_HYSTERESIS) => held
                /\ (_fully_discharged /\ ~_fully_discharged') =>
                      low > MIN_CELL_VOLTAGE + MIN_CELL_HYSTERESIS ]_vars

\* the lowest cell is back at floor + margin / 2 and the limit is still 0
C14_Witness ==
    /\ hist.op = "_update"
    /\ hist.result = "ok"
    /\ _fully_discharged
    /\ bus.MinCellVoltage = Some(MIN_CELL_VOLTAGE + MIN_CELL_HYSTERESIS \div 2)
    /\ bus.NrOfModulesBlockingDischarge = Some(0)
    /\ FracEq(bus.MaxDischargeCurrent, Frac(0, 1))

\* the installed capacity read in the published cycle, in 1/ChargeScale Ah
CapacityRead(reads) == SeqSum(Column(reads, "InstalledCapacity")) * ChargeScale

\* C15: after every published cycle the Coulomb counter is at least 0 and at
\* most the installed capacity read in that cycle
C15_AccumulatorBounds ==
    bus.Voltage # None =>
        /\ 0 <= _own_charge
        /\ _own_charge <= CapacityRead(hist.reads)

\* a battery of half the size is read with no current and the cells below the
\* balancing target: the counter is cut down to its capacity
C15_Witness ==
    /\ hist.op = "_update"
    /\ hist.result = "ok"
    /\ hist.reads = <<ReadingSmall>>
    /\ hist.chargeWritten
    /\ _own_charge = CapacityRead(hist.reads)

\* the charge a current moves in dt seconds, in 1/ChargeScale Ah: the
\* efficiency applies to charging only
Moved(current, dt) ==
    LET perSecond == ChargeScale \div SecondsPerHour
    IN  IF current > 0
        THEN (current * dt * perSecond * EfficiencyNum) \div EfficiencyDen
        ELSE current * dt * perSecond

\* the published cycle snaps the counter to 100 % or to 0 %
Snaps(b) ==
    \/ FracGeInt(b.Voltage, CVL_BALANCING)
    \/ b.MinCellVoltage[1] <= MIN_CELL_VOLTAGE /\ settings.ZERO_SOC

\* C16: a published cycle without snap and without clamping changes the
\* counter by current * dt / 3600 * efficiency for a current above 0 and by
\* current * dt / 3600 otherwise, dt being the time since the cycle before
C16_Integration ==
    [][ CycleStep =>
            LET dt == elapsed + SecondsPerHour
                moved == Moved(bus'.Current[1], dt)
            IN  (/\ ~Snaps(bus')
                 /\ 0 <= _own_charge + moved
                 /\ _own_charge + moved <= CapacityRead(hist'.reads)) =>
                    _own_charge' = _own_charge + moved ]_vars

\* 25 A drawn over the two hours since the last published cycle, a failed
\* cycle in between: 50 Ah less, from 95 Ah
C16_Witness ==
    /\ hist.op = "_update"
    /\ hist.result = "ok"
    /\ hist.deltaTime = 2 * SecondsPerHour
    /\ bus.Current = Some(-25)
    /\ _own_charge = 45 * ChargeScale
    /\ ~Snaps(bus)

\* |a - b|
Distance(a, b) == IF a >= b THEN a - b ELSE b - a

\* a drift of at least CHARGE_SAVE_PRECISION * InstalledCapacity
Drifted(charge, saved, capacity) ==
    Distance(charge, saved) * SavePrecisionDen >= SavePrecisionNum * capacity

\* C17: a published cycle writes the charge file exactly when the counter is
\* at least CHARGE_SAVE_PRECISION * InstalledCapacity away from the value last
\* saved, it writes the counter, and after the cycle the counter is within
\* that drift of the value last saved
C17_SaveOnDrift ==
    [][ CycleStep =>
            LET capacity == CapacityRead(hist'.reads)
                drifted == Drifted(_own_charge', _own_charge_old, capacity)
            IN  /\ charge_file' # charge_file <=> drifted
                /\ hist'.chargeWritten <=> drifted
                /\ drifted => /\ _own_charge_old' = _own_charge'
                              /\ 2 * Distance(charge_file'[1], _own_charge')
                                    <= ChargeScale \div MilliScale
                /\ ~drifted => _own_charge_old' = _own_charge_old
                /\ ~Drifted(_own_charge', _own_charge_old', capacity) ]_vars

\* the counter goes from 50 Ah to 25 Ah, exactly a quarter of 100 Ah away
\* from the saved 50 Ah: the file is written
C17_Witness ==
    /\ hist.op = "_update"
    /\ hist.result = "ok"
    /\ hist.chargeWritten
    /\ hist.deltaTime = SecondsPerHour
    /\ bus.Current = Some(-25)
    /\ _own_charge = 25 * ChargeScale
    /\ charge_file = Some(25 * ChargeScale)

\* the process has been started and no cycle has published since
BeforeFirstCycle == proc = "running" /\ bus = NoBus

\* C18: from the start of the process to its first published cycle the
\* Coulomb counter is the value in the charge file and, in self-managed mode,
\* the last-balancing day is the value in the last_balancing file; the first
\* published cycle integrates from the one and counts the days from the other
C18_RoundTrip ==
    [][ /\ BeforeFirstCycle' =>
              /\ _own_charge' = charge_file'[1]
              /\ settings.OWN_CHARGE_PARAMETERS =>
                    _last_balancing' = last_balancing_file'[1]
        /\ (CycleStep /\ BeforeFirstCycle) =>
              LET moved == Moved(bus'.Current[1], elapsed + SecondsPerHour)
                  due == TimeUnbalanced(today, last_balancing_file[1])
                             >= BALANCING_REPETITION
              IN  /\ (/\ ~(settings.OWN_CHARGE_PARAMETERS /\ Snaps(bus'))
                       /\ 0 <= charge_file[1] + moved
                       /\ charge_file[1] + moved <= CapacityRead(hist'.reads)) =>
                          _own_charge' = charge_file[1] + moved
                  /\ (/\ settings.OWN_CHARGE_PARAMETERS
                       /\ CVL_NORMAL(today) < CVL_BALANCING) =>
                          (hist'.trace[2] = 1 <=> due) ]_vars

\* the process was started again while its counter was away from the charge
\* file and after it had saved a day of balancing: it holds what the files hold
C18_Witness ==
    /\ hist.restarted
    /\ hist.drifted
    /\ BeforeFirstCycle
    /\ charge_file # ChargeFileHalf
    /\ _own_charge = charge_file[1]
    /\ last_balancing_file = Some(3)
    /\ _last_balancing = 3

\* the files that make __init__ end the process
StartupFatal ==
    \/ charge_file = None
    \/ settings.OWN_CHARGE_PARAMETERS /\ last_balancing_file = None

\* C19: with the charge file absent or not a number, or, in self-managed mode,
\* the last_balancing file absent or not a number, the process ends in
\* __init__ with no callback registered and the monitor not started; otherwise
\* __init__ registers the first discovery poll
C19_StartupFiles ==
    proc # "start" =>
        IF StartupFatal
        THEN /\ proc = "exited"
             /\ hist.op = "__init__"
             /\ timers = {}
             /\ ~monReady
             /\ hist.polls = 0
        ELSE hist.op = "__init__" =>
                (proc = "running" /\ timers = {"_find_settings"})

\* self-managed mode, the charge file in place, no last_balancing file
C19_Witness ==
    /\ settings.OWN_CHARGE_PARAMETERS
    /\ charge_file # None
    /\ last_balancing_file = None
    /\ proc = "exited"
    /\ hist.op = "__init__"
    /\ exit_reason = "Last balancing file read error"
    /\ timers = {}

\* C19 as claimed: with either file absent or not a number the process ends in
\* __init__ with no callback registered, in every mode
C19_AsClaimed ==
    (proc # "start" /\ (charge_file = None \/ last_balancing_file = None)) =>
        /\ proc = "exited"
        /\ hist.op = "__init__"
        /\ timers = {}

\* a read of the inverter/charger, of a configured solar charger or of the
\* shunt raises or gives None
VictronFails(ve) ==
    \/ ve.raises
    \/ _multi = NoName
    \/ ve.multi = None
    \/ \E i \in 1..settings.NR_OF_MPPTS :
          i > Len(_mppts_list) \/ ve.mppts[i] = None
    \/ settings.DC_LOADS /\ (_smart_shunt = NoName \/ ve.shunt = None)

\* C20: with the current taken from the Victron devices, a call of _update in
\* which every battery answers publishes; when a read of the inverter/charger,
\* a solar charger or the shunt fails or gives None, the published current and
\* power are both the batteries' sums, and the failure counter is 0; the
\* current is the batteries' sum exactly when the power is
C20_ExternalFailure ==
    [][ (/\ UpdateStep
         /\ hist'.op = "_update"
         /\ hist'.failStreak = 0
         /\ settings.CURRENT_FROM_VICTRON) =>
            LET current == SeqSum(Column(hist'.reads, "Current"))
                power == SeqSum(Column(hist'.reads, "Power"))
            IN  /\ hist'.result = "ok"
                /\ hist'.published
                /\ proc' = "running"
                /\ "_update" \in timers'
                /\ _read_trials' = 0
                /\ VictronFails(hist'.ve) =>
                      /\ bus'.Current = Some(current)
                      /\ FracEq(bus'.Power, Frac(power, 1))
                /\ bus'.Current = Some(current)
                      <=> FracEq(bus'.Power, Frac(power, 1)) ]_vars

\* the inverter/charger answers, the shunt gives None, after a failed cycle:
\* the batteries' current and power are published and the counter is back at 0
C20_Witness ==
    /\ settings.CURRENT_FROM_VICTRON
    /\ settings.DC_LOADS
    /\ hist.op = "_update"
    /\ hist.result = "ok"
    /\ hist.deltaTime = 2 * SecondsPerHour
    /\ _multi # NoName
    /\ _smart_shunt # NoName
    /\ ~hist.ve.raises
    /\ hist.ve.multi # None
    /\ hist.ve.shunt = None
    /\ bus.Current = Some(200)
    /\ FracEq(bus.Power, Frac(135200, 1))
    /\ _read_trials = 0

C22_DistinctNames ==
    hist.op = "_find_batteries" =>
        /\ Len(_batteries_dict) = hist.count
        /\ hist.result = "done" => Len(_batteries_dict) = settings.NR_OF_BATTERIES

\* C23: after a FindBatteries poll that leaves the process running, the
\* recorded shunt is the shunt that poll could reach (none when it reached
\* none) and the recorded batteries are among the batteries of that poll
C23_RebuiltEachPoll ==
    (hist.op = "_find_batteries" /\ proc = "running") =>
        /\ _smart_shunt = hist.shuntSeen
        /\ Len(_batteries_dict) <= hist.matching

\* the names the accepted batteries are to get: "Battery<N>" without custom
\* name, the custom name otherwise, N appended to a name given before
RECURSIVE NamesDue(_, _, _)
NamesDue(custom, n, given) ==
    IF n > Len(custom) THEN given
    ELSE LET name == IF custom[n] = NoName THEN "Battery" \o ToString(n)
                     ELSE custom[n]
         IN  NamesDue(custom, n + 1,
                      given \cup {IF name \in given THEN name \o ToString(n)
                                  ELSE name})

\* C24: after a FindBatteries poll the recorded names are "Battery<N>" for the
\* N-th accepted battery when it has no custom name, its custom name when it
\* has one, and the custom name with N appended when an earlier battery of the
\* poll was given that name
C24_DisplayNames ==
    (hist.op = "_find_batteries" /\ proc = "running") =>
        DictKeys(_batteries_dict) = NamesDue(hist.custom, 1, {})

\* C25: a call of _update in which the /Voltages/Sum of a battery is None
\* publishes nothing, leaves the engine state and the discovery results as
\* they are, adds one to the failure counter and either stays registered for
\* the next tick or, with the budget exceeded, ends the process
C25_MissingSumIsReadFailure ==
    [][ (UpdateStep /\ hist'.op = "_update" /\ hist'.sumMissing) =>
            /\ ~hist'.published
            /\ bus' = bus
            /\ engineVars' = engineVars
            /\ discoveryVars' = discoveryVars
            /\ _read_trials' = _read_trials + 1
            /\ hist'.failStreak = hist.failStreak + 1
            /\ IF _read_trials' > READ_TRIALS
               THEN proc' = "exited" /\ exit_reason' = "DBus read failed"
               ELSE proc' = "running" /\ "_update" \in timers' ]_vars

\* after a published cycle one of two batteries gives no /Voltages/Sum while
\* every read answers: the cycle is counted as failed and will be retried
C25_Witness ==
    /\ hist.op = "_update"
    /\ hist.sumMissing
    /\ hist.result = "retry"
    /\ _read_trials = 1
    /\ bus # NoBus
    /\ Len(_batteries_dict) = 2
    /\ "_update" \in timers

\* the batteries of the published cycle that gave no time to go
Untimed == {k \in Range(Len(hist.reads)) : hist.reads[k].TimeToGo = None}

\* C26: with OWN_SOC off, the published time to go is None when a battery of
\* the cycle gave None, at whatever place in the read order, and otherwise the
\* sum of time to go times installed capacity over the sum of the installed
\* capacities
C26_TimeToGo ==
    (bus.Voltage # None /\ ~settings.OWN_SOC) =>
        IF Untimed # {}
        THEN bus.TimeToGo = None
        ELSE /\ bus.TimeToGo # None
             /\ FracEq(bus.TimeToGo,
                       Frac(SeqSum([k \in Range(Len(hist.reads)) |->
                                       hist.reads[k].TimeToGo[1]
                                           * hist.reads[k].InstalledCapacity]),
                            ReadSum("InstalledCapacity")))

\* the first battery gives None and the second an hour: None is published
C26_Witness ==
    /\ bus.Voltage # None
    /\ ~settings.OWN_SOC
    /\ Len(hist.reads) = 2
    /\ Untimed = {1}
    /\ hist.reads[2].TimeToGo = Some(3600)
    /\ bus.TimeToGo = None

\* every battery gave the value
AllPresent(list) == \A k \in Range(Len(list)) : list[k] # None

SmallestOf(list) ==
    CHOOSE m \in {list[k][1] : k \in Range(Len(list))} :
        \A k \in Range(Len(list)) : m <= list[k][1]

\* C27: in external mode a call of _update in which every battery read
\* succeeds publishes, also when an advertised limit is None; the published
\* charge voltage limit is the smallest advertised one, the published charge
\* and discharge current limits are the smallest advertised ones times
\* NR_OF_BATTERIES
C27_ExternalLimits ==
    [][ (/\ UpdateStep
         /\ hist'.op = "_update"
         /\ hist'.failStreak = 0
         /\ ~settings.OWN_CHARGE_PARAMETERS) =>
            /\ hist'.result = "ok"
            /\ "_update" \in timers'
            /\ LET cvl == Column(hist'.reads, "MaxChargeVoltage")
                   ccl == Column(hist'.reads, "MaxChargeCurrent")
                   dcl == Column(hist'.reads, "MaxDischargeCurrent")
               IN  /\ AllPresent(cvl) =>
                         bus'.MaxChargeVoltage = Some(SmallestOf(cvl))
                   /\ AllPresent(ccl) =>
                         bus'.MaxChargeCurrent =
                             Some(SmallestOf(ccl) * settings.NR_OF_BATTERIES)
                   /\ AllPresent(dcl) =>
                         bus'.MaxDischargeCurrent =
                             Some(SmallestOf(dcl) * settings.NR_OF_BATTERIES) ]_vars

\* what a published cycle without dynamic reduction publishes in self-managed
\* mode: the balancing target when the balancing state it leaves is not
\* Inactive and this month's normal target is below the balancing target, this
\* month's normal target otherwise
TargetOfTheMonth ==
    [][ (CycleStep /\ settings.OWN_CHARGE_PARAMETERS /\ ~_dynamic_cvl') =>
            bus'.MaxChargeVoltage =
                Some(IF _balancing' # 0 /\ CVL_NORMAL(today) < CVL_BALANCING
                     THEN CVL_BALANCING
                     ELSE CVL_NORMAL(today)) ]_vars

\* C28: in self-managed mode a published cycle without dynamic reduction
\* publishes the balancing target when the balancing state it leaves is not
\* Inactive and the normal target of the month when it is Inactive, also after
\* the month has changed
C28_ChargeVoltageTarget ==
    [][ (CycleStep /\ settings.OWN_CHARGE_PARAMETERS /\ ~_dynamic_cvl') =>
            bus'.MaxChargeVoltage =
                Some(IF _balancing' # 0 THEN CVL_BALANCING
                                        ELSE CVL_NORMAL(today)) ]_vars

\* C29: a published cycle leaves BalancingState at 0, 1 or 2 and either keeps
\* it or takes it from Inactive to Pending, from Pending to GoalReached, from
\* GoalReached to Inactive, or, through Pending within the cycle, from Inactive
\* to GoalReached when balancing is due and the goal is met in that cycle;
\* never from Pending to Inactive nor from GoalReached to Pending
C29_BalancingSteps ==
    [][ CycleStep =>
            /\ _balancing' \in {0, 1, 2}
            /\ <<_balancing, _balancing'>> \in
                  {<<0, 0>>, <<1, 1>>, <<2, 2>>,
                   <<0, 1>>, <<1, 2>>, <<2, 0>>, <<0, 2>>}
            /\ (_balancing = 0 /\ _balancing' = 2) =>
                  /\ TimeUnbalanced(today, _last_balancing) >= BALANCING_REPETITION
                  /\ FracGeInt(bus'.Voltage, CVL_BALANCING)
                  /\ bus'.VoltagesDiff[1] < CELL_DIFF_MAX ]_vars

\* one cycle took the state from Inactive through Pending to GoalReached
C29_Witness ==
    /\ hist.op = "_update"
    /\ hist.result = "ok"
    /\ hist.trace = <<0, 1, 2, 2>>
    /\ _balancing = 2

\* C29 as claimed: a published cycle keeps BalancingState or takes it from
\* Inactive to Pending, from Pending to GoalReached or from GoalReached to
\* Inactive, and leaves it at 0, 1 or 2
C29_OneStepPerCycle ==
    [][ CycleStep =>
            /\ _balancing' \in {0, 1, 2}
            /\ <<_balancing, _balancing'>> \in
                  {<<0, 0>>, <<1, 1>>, <<2, 2>>,
                   <<0, 1>>, <<1, 2>>, <<2, 0>>} ]_vars

\* this step is a call of _update that writes the last_balancing file
WritesLastBalancing == UpdateStep /\ hist'.op = "_update" /\ hist'.lbWritten

\* this step is a published cycle of self-managed mode in which balancing
\* completes: GoalReached to Inactive, or, with the normal target at or above
\* the balancing target, a day or more after the last balancing with the
\* voltage at the balancing target and the cells together
CompletesBalancing ==
    /\ CycleStep
    /\ settings.OWN_CHARGE_PARAMETERS
    /\ IF CVL_NORMAL(today) < CVL_BALANCING
       THEN _balancing = 2 /\ _balancing' = 0
       ELSE /\ TimeUnbalanced(today, _last_balancing) > 0
            /\ FracGeInt(bus'.Voltage, CVL_BALANCING)
            /\ bus'.VoltagesDiff[1] < CELL_DIFF_MAX

\* C30: the last_balancing file changes only by a write of _update, _update
\* writes it only in a published cycle in which balancing completes, and in
\* self-managed mode, while the process runs, the stored last-balancing day is
\* the content of the file
C30_LastBalancingFile ==
    [][ /\ last_balancing_file' # last_balancing_file => WritesLastBalancing
        /\ WritesLastBalancing =>
              /\ CompletesBalancing
              /\ last_balancing_file' = Some(today)
        /\ (proc' = "running" /\ settings.OWN_CHARGE_PARAMETERS) =>
              _last_balancing' = last_balancing_file'[1] ]_vars

\* a cycle of December completed balancing without leaving Inactive: the day
\* is written and stored, another day than the one the process started with
C30_Witness ==
    /\ hist.op = "_update"
    /\ hist.lbWritten
    /\ settings.OWN_CHARGE_PARAMETERS
    /\ CVL_NORMAL(today) >= CVL_BALANCING
    /\ _balancing = 0
    /\ last_balancing_file = Some(today)
    /\ _last_balancing = today

\* C30 as claimed: the file is written only in a cycle in which balancing
\* completes, and while the process runs the stored last-balancing day is the
\* content of the file, in either mode
C30_InEveryMode ==
    [][ /\ last_balancing_file' # last_balancing_file => WritesLastBalancing
        /\ WritesLastBalancing =>
              /\ CompletesBalancing
              /\ last_balancing_file' = Some(today)
        /\ proc' = "running" =>
              _last_balancing' = last_balancing_file'[1] ]_vars

\* the voltage is at the balancing target with the cells together
GoalMet(b) ==
    /\ FracGeInt(b.Voltage, CVL_BALANCING)
    /\ b.VoltagesDiff[1] < CELL_DIFF_MAX

FeedInCache ==
    [][ (CycleStep /\ settings.OWN_CHARGE_PARAMETERS) =>
            /\ hist'.feedRead => (~_dynamic_cvl /\ _dynamic_cvl')
            /\ hist'.feedWrites = <<1>> => _dc_feed_active = "1"
            /\ (_dc_feed_active' = "1" /\ _dc_feed_active # "1") =>
                  (hist'.feedRead /\ feed_in = 1) ]_vars

\* C32: a published cycle of self-managed mode reads the feed-in setting only
\* when the dynamic-reduction latch rises in it, and writes the setting to 1
\* only when the setting was 1 at the last rise of the latch
C32_FeedInDiscipline ==
    [][ (CycleStep /\ settings.OWN_CHARGE_PARAMETERS) =>
            /\ hist'.feedRead => (~_dynamic_cvl /\ _dynamic_cvl')
            /\ hist'.feedWrites = <<1>> => hist.riseFeed = Some(1) ]_vars

\* the modules blocking charge, summed over the batteries of the published
\* cycle
BlockingCharge == SeqSum(Column(hist.reads, "NrOfModulesBlockingCharge"))

ZeroSnap(b) == settings.ZERO_SOC /\ b.MinCellVoltage[1] <= MIN_CELL_VOLTAGE

\* the voltage of the published cycle is at or above the balancing target
FullSnap(b) == FracGeInt(b.Voltage, CVL_BALANCING)

\* C34: in self-managed mode a published cycle with the zero-SoC reset
\* configured and the lowest cell at or below the floor integrates from 0, one
\* with the voltage at or above the balancing target and no such reset from
\* the installed capacity; with both conditions it integrates from 0
C34_SnapBeforeIntegration ==
    [][ (CycleStep /\ settings.OWN_CHARGE_PARAMETERS) =>
            LET moved == Moved(bus'.Current[1], elapsed + SecondsPerHour)
                capacity == CapacityRead(hist'.reads)
                from == IF ZeroSnap(bus') THEN 0 ELSE capacity
            IN  (ZeroSnap(bus') \/ FullSnap(bus')) =>
                    _own_charge' = Min2(Max2(from + moved, 0), capacity) ]_vars

\* an hour of charging at 50 A with the voltage at the balancing target and a
\* cell at the floor: the counter holds what the hour brought, counted from 0
C34_Witness ==
    /\ hist.op = "_update"
    /\ hist.result = "ok"
    /\ settings.OWN_CHARGE_PARAMETERS
    /\ ZeroSnap(bus)
    /\ FullSnap(bus)
    /\ hist.deltaTime = SecondsPerHour
    /\ bus.Current = Some(50)
    /\ _own_charge = Moved(50, SecondsPerHour)
    /\ _own_charge > 0
    /\ _own_charge < CapacityRead(hist.reads)

\* a step that is one FindBatteries poll
FindBatteriesStep ==
    /\ Enabled("_find_batteries")
    /\ hist'.op = "_find_batteries"
    /\ hist'.polls = hist.polls + 1

\* C35: a FindBatteries poll that runs before the monitor exists raises
\* nothing uncaught and accepts no battery; within the trial budget it adds
\* one to the trial counter and stays registered, and with the budget used
\* up it ends the process with the discovery error
C35_PollBeforeMonitor ==
    [][ (FindBatteriesStep /\ ~monReady) =>
            /\ ~uncaught'
            /\ _batteries_dict' = <<>>
            /\ IF _search_trials < SEARCH_TRIALS
               THEN /\ _search_trials' = _search_trials + 1
                    /\ timers' = {"_find_batteries"}
                    /\ proc' = "running"
               ELSE /\ proc' = "exited"
                    /\ exit_reason' = "Required number of batteries not found"
                    /\ timers' = {} ]_vars

\* the required batteries are on the bus, the monitor is not there yet: the
\* poll is a trial without success and will be repeated
C35_Witness ==
    /\ hist.op = "_find_batteries"
    /\ ~monReady
    /\ hist.matching = settings.NR_OF_BATTERIES
    /\ hist.result = "retry"
    /\ _search_trials = 1
    /\ timers = {"_find_batteries"}
    /\ proc = "running"
    /\ ~uncaught

\* C35 as claimed: a FindBatteries poll that runs before the monitor exists
\* raises nothing uncaught, adds one to the trial counter and stays registered
C35_AlwaysPolledAgain ==
    [][ (FindBatteriesStep /\ ~monReady) =>
            /\ ~uncaught'
            /\ _search_trials' = _search_trials + 1
            /\ timers' = {"_find_batteries"}
            /\ proc' = "running" ]_vars

\* the callbacks of the discovery states
DiscoveryCallbacks ==
    {"_find_settings", "_find_batteries", "_find_multis", "_find_mppts"}

\* C36: the trial counter is 0 when a discovery callback is registered and
\* never above SEARCH_TRIALS, and as long as the process runs and _update was
\* never registered exactly one discovery callback is registered
C36_DiscoveryEnds ==
    [][ /\ (timers' # timers /\ timers' \cap DiscoveryCallbacks # {}) =>
              _search_trials' = 0
        /\ _search_trials' \in 0..SEARCH_TRIALS
        /\ (proc' = "running" /\ hist'.updateTimers = 0) =>
              \E f \in DiscoveryCallbacks : timers' = {f} ]_vars

\* C37: in self-managed mode a published cycle that takes BalancingState from
\* GoalReached to Inactive leaves today in the last_balancing file, and a
\* published cycle that begins Inactive less than BALANCING_REPETITION days,
\* wrapping at 365, after the day in the file leaves the state Inactive
C37_NoEarlyBalancing ==
    [][ (CycleStep /\ settings.OWN_CHARGE_PARAMETERS) =>
            /\ (_balancing = 2 /\ _balancing' = 0) =>
                  last_balancing_file' = Some(today)
            /\ (/\ _balancing = 0
                 /\ TimeUnbalanced(today, last_balancing_file[1])
                        < BALANCING_REPETITION) =>
                  _balancing' = 0 ]_vars

\* balancing was completed yesterday, and a cycle of today, one day short of
\* the repetition interval, has left the state Inactive
C37_Witness ==
    /\ hist.op = "_update"
    /\ hist.result = "ok"
    /\ settings.OWN_CHARGE_PARAMETERS
    /\ hist.balPath = <<0, 1, 2, 0>>
    /\ ~hist.lbWritten
    /\ last_balancing_file = Some(today - 1)
    /\ TimeUnbalanced(today, last_balancing_file[1]) = BALANCING_REPETITION - 1
    /\ _balancing = 0

\* what holds once the setting was read as 0: every later call of _update
\* leaves the cached 0 as it is, reads nothing and never writes 1
FeedInCacheStuck ==
    [][ (UpdateStep /\ hist'.op = "_update" /\ _dc_feed_active = "0") =>
            /\ _dc_feed_active' = "0"
            /\ ~hist'.feedRead
            /\ hist'.feedWrites # <<1>> ]_vars

\* C38: in self-managed mode a published cycle in which the
\* dynamic-reduction latch rises, after the setting was read as 0 at an
\* earlier rise and has been set to 1 by its owner since, reads the setting
\* and caches the 1
C38_RereadAfterEnabling ==
    [][ (/\ CycleStep
         /\ settings.OWN_CHARGE_PARAMETERS
         /\ ~_dynamic_cvl
         /\ _dynamic_cvl'
         /\ _dc_feed_active = "0"
         /\ feed_in = 1) =>
            /\ hist'.feedRead
            /\ _dc_feed_active' = "1" ]_vars

-----------------------------------------------------------------------------
(* Functions._interpolate called on its own *)

\* the call Functions._interpolate(X, Y, x) in the running process, with the
\* arguments <<X, Y, x>> of hist.call
Interpolate ==
    /\ proc = "running"
    /\ hist.call # <<>>
    /\ IF Len(hist.call[1]) = Len(hist.call[2])
       THEN /\ hist' = [Hist("_interpolate", "ok") EXCEPT
                            !.value = Some(_interpolateFloat(hist.call[1],
                                                             hist.call[2],
                                                             hist.call[3]))]
            /\ UNCHANGED <<proc, exit_reason, timers>>
       ELSE /\ Exit("Both lists must have the same length")
            /\ hist' = Hist("_interpolate", "exit")
    /\ UNCHANGED <<settings, uncaught, monReady, _read_trials, elapsed, today,
                   bus>>
    /\ UNCHANGED discoveryVars
    /\ UNCHANGED engineVars

\* the tables: one to three integers, X in strictly ascending order, and the
\* arguments from below the lowest to above the highest X
TableX == {0, 3, 11, 14}

TableY == {0, 3, 13}

TableLens == 1..3

TablesOver(V) == UNION {[1..n -> V] : n \in TableLens}

Ascending(X) == \A i \in 1..(Len(X) - 1) : X[i] < X[i + 1]

TablesX == {X \in TablesOver(TableX) : Ascending(X)}

TablesY == TablesOver(TableY)

TableArgs == 0..(2^FloatBits - 1)

InitInterpolate ==
    InitState(SettingsOf({1}, {FALSE}, {0}, {FALSE}, {FALSE}, {FALSE}),
              {ChargeFileOf(50)}, {Some(1)}, {1}, {2},
              TablesX \X TablesY \X TableArgs)

NextInterpolate == __init__ \/ Interpolate

SpecInterpolate == InitInterpolate /\ [][NextInterpolate]_vars

\* the exact value of the line through (X[i], Y[i]) and (X[i+1], Y[i+1]) at x
LinearValue(X, Y, x, i) ==
    Frac(Y[i] * (X[i + 1] - X[i]) + (Y[i + 1] - Y[i]) * (x - X[i]),
         X[i + 1] - X[i])

\* |a - b| <= c for fractions a and b and a fraction c
FracWithin(a, b, c) ==
    LET n == a[1] * b[2] - b[1] * a[2]
        d == a[2] * b[2]
    IN  (IF n < 0 THEN 0 - n ELSE n) * c[2] <= c[1] * d

\* what holds of every call: tables of different length end the process;
\* tables of equal length give a value, Y[0] up to X[0], Y[last] from X[last]
\* on, and in between a value that is off the exact line by no more than
\* three roundings of the larger of |Y[i]| and |Y[i+1]|
InterpolateRounded ==
    hist.op = "_interpolate" =>
        LET X == hist.call[1]
            Y == hist.call[2]
            x == hist.call[3]
        IN  IF Len(X) # Len(Y)
            THEN proc = "exited" /\ hist.value = None
            ELSE /\ proc = "running"
                 /\ hist.value # None
                 /\ x <= X[1] => hist.value = Some(Frac(Y[1], 1))
                 /\ (x > X[1] /\ x >= X[Len(X)]) =>
                        hist.value = Some(Frac(Y[Len(X)], 1))
                 /\ \A i \in 1..(Len(X) - 1) :
                        (X[i] < x /\ x <= X[i + 1] /\ x < X[Len(X)]) =>
                            FracWithin(hist.value[1], LinearValue(X, Y, x, i),
                                       Frac(3 * Max2(Y[i], Y[i + 1]),
                                            2^FloatBits))

\* C39: for ascending X and Y of equal length a call returns Y[0] for
\* x <= X[0], Y[last] for x >= X[last], for X[i] < x <= X[i+1] a value
\* between Y[i] and Y[i+1] that is exactly Y[i+1] at x = X[i+1]; it returns a
\* value, one between min(Y) and max(Y); tables of different length end the
\* process
C39_Interpolate ==
    hist.op = "_interpolate" =>
        LET X == hist.call[1]
            Y == hist.call[2]
            x == hist.call[3]
            v == hist.value[1]
            Ys == {Y[k] : k \in 1..Len(Y)}
        IN  IF Len(X) # Len(Y)
            THEN proc = "exited"
            ELSE /\ hist.value # None
                 /\ x <= X[1] => v = Frac(Y[1], 1)
                 /\ x >= X[Len(X)] => v = Frac(Y[Len(X)], 1)
                 /\ \A i \in 1..(Len(X) - 1) :
                        (X[i] < x /\ x <= X[i + 1]) =>
                            /\ FracGeInt(v, Min2(Y[i], Y[i + 1]))
                            /\ FracLeInt(v, Max2(Y[i], Y[i + 1]))
                            /\ x = X[i + 1] => v = Frac(Y[i + 1], 1)
                 /\ \E lo \in Ys : FracGeInt(v, lo)
                 /\ \E hi \in Ys : FracLeInt(v, hi)

====
